---- MODULE Spec2Model ----
(***************************************************************************)
(* AgentForge workflow graph core: the DAG validator (graph index,         *)
(* structural rules S1-S5, semantic rules M1-M2, Kahn topological sort,    *)
(* orchestrator) and the client-side execution event reducer (zustand      *)
(* execution store fed by the execution WebSocket).                        *)
(***************************************************************************)
EXTENDS Integers, Sequences, FiniteSets, TLC

\* ------------------------------------------------------------------------
\* Bounds of the model
\* ------------------------------------------------------------------------
MaxNodes == 3       \* at most this many nodes in a workflow snapshot
MaxEdges == 3       \* at most this many edges in a workflow snapshot
MaxSteps == 40      \* step budget of the DFS / BFS loops (exhausted = diverged)
MaxTime == 1        \* the wall clock runs over 0..MaxTime
MaxLogs == 1        \* log-producing events are accepted while Len(logs) < MaxLogs
MaxSemEdges == 2    \* at most this many edges in a snapshot of the semantic rules
MaxDupEdges == 3    \* at most this many edges in a snapshot of the duplicate-edge rule
MaxStoreNodes == 2  \* the workflow store holds at most this many nodes
MaxStoreEdges == 1  \* the workflow store holds at most this many edges
MaxClosing == 1     \* sockets closed by a cleanup and not yet reported closed
RingHeadroom == 2   \* the log buffer near its limit starts this many entries short of it
MaxOverflow == 2    \* at most this many entries are added beyond the limit
MaxCanvasEdges == 3 \* the canvas holds at most this many edges

\* ------------------------------------------------------------------------
\* Generic helpers: JS Map with insertion order = [keys: Seq, val: function]
\* ------------------------------------------------------------------------
Undefined == "undefined"

Range(s) == {s[i] : i \in DOMAIN s}

EmptyMap == [keys |-> <<>>, val |-> <<>>]

MapHas(m, k) == k \in Range(m.keys)

MapSet(m, k, v) ==
  IF MapHas(m, k)
  THEN [m EXCEPT !.val = [x \in DOMAIN m.val |-> IF x = k THEN v ELSE m.val[x]]]
  ELSE [keys |-> Append(m.keys, k),
        val  |-> [x \in (DOMAIN m.val) \cup {k} |-> IF x = k THEN v ELSE m.val[x]]]

\* ------------------------------------------------------------------------
\* Domain model: nodes, edges, agent registry
\* ------------------------------------------------------------------------
NodeIdPool == {"a", "b", "c"}

\* ids given to the edges of a snapshot, by position of first insertion
EdgeIdAt == <<"e1", "e2", "e3", "e4", "e5", "e6">>

SourcePorts == {"out"}
TargetPorts == {"in"}

\* Node value stored under an id in workflow.nodes (label and position are
\* not read by the validator).
NodeOf(id) ==
  CASE id = "a" -> [id |-> id, type |-> "input", config |-> [agentId |-> Undefined]]
    [] id = "b" -> [id |-> id, type |-> "agent", config |-> [agentId |-> "A1"]]
    [] id = "d" -> [id |-> id, type |-> "agent", config |-> [agentId |-> "A3"]]
    [] id = "t" -> [id |-> id, type |-> "tool", config |-> [agentId |-> "A1"]]
    [] OTHER    -> [id |-> id, type |-> "agent", config |-> [agentId |-> "A2"]]

AgentDefinition(agentId) ==
  CASE agentId = "A1" ->
         [id |-> "A1",
          inputSchema  |-> [ports |-> <<[name |-> "in", type |-> "string", required |-> TRUE]>>],
          outputSchema |-> [ports |-> <<[name |-> "out", type |-> "string", required |-> FALSE]>>]]
    [] agentId = "A3" ->
         [id |-> "A3",
          inputSchema  |-> [ports |-> <<[name |-> "in", type |-> "string", required |-> TRUE],
                                        [name |-> "aux", type |-> "number", required |-> TRUE]>>],
          outputSchema |-> [ports |-> <<[name |-> "out", type |-> "string", required |-> FALSE]>>]]
    [] OTHER ->
         [id |-> "A2",
          inputSchema  |-> [ports |-> <<[name |-> "in", type |-> "string", required |-> TRUE]>>],
          outputSchema |-> [ports |-> <<[name |-> "out", type |-> "number", required |-> FALSE]>>]]

\* An AgentRegistry is the set of AgentIds it has a definition for.
RegistryFull == {"A1", "A2"}
RegistryPartial == {"A1"}

\* workflow.nodes.has(id)
HasNode(w, id) == id \in Range(w.nodes)

\* workflow.edges.get(edgeId): the set of edges stored under the id (empty
\* when the lookup yields undefined)
EdgesGet(w, edgeId) == {w.edges[i] : i \in {j \in DOMAIN w.edges : w.edges[j].id = edgeId}}

EdgeOf(w, edgeId) == CHOOSE e \in EdgesGet(w, edgeId) : TRUE

\* ------------------------------------------------------------------------
\* validation/types.ts
\* ------------------------------------------------------------------------
validResult == [valid |-> TRUE]

invalidResult(errors) == [valid |-> FALSE, errors |-> errors]

\* What a rule hands back: its errors (valid iff there are none) and whether
\* it completed ("none"), threw ("throw") or ran out of steps ("diverge").
Completed(errors) == [errors |-> errors, abort |-> "none"]

Aborted(how) == [errors |-> <<>>, abort |-> how]

ValidationError(code, message, nodeIds, edgeIds) ==
  [code |-> code, message |-> message, nodeIds |-> nodeIds, edgeIds |-> edgeIds]

\* ------------------------------------------------------------------------
\* validation/graph.ts
\* ------------------------------------------------------------------------
RECURSIVE InitMap(_, _, _)
InitMap(nodes, i, v) ==
  IF i > Len(nodes) THEN EmptyMap
  ELSE LET rest == InitMap(nodes, i + 1, v)
       IN [keys |-> <<nodes[i]>> \o rest.keys,
           val  |-> [x \in {nodes[i]} \cup DOMAIN rest.val |->
                       IF x = nodes[i] THEN v ELSE rest.val[x]]]

RECURSIVE adjPopulate(_, _, _)
adjPopulate(w, i, adj) ==
  IF i > Len(w.edges) THEN adj
  ELSE LET edge == w.edges[i]
       IN adjPopulate(w, i + 1,
            IF MapHas(adj, edge.source)
            THEN MapSet(adj, edge.source, Append(adj.val[edge.source], edge.id))
            ELSE adj)

buildAdjacencyList(w) == adjPopulate(w, 1, InitMap(w.nodes, 1, <<>>))

RECURSIVE revPopulate(_, _, _)
revPopulate(w, i, rev) ==
  IF i > Len(w.edges) THEN rev
  ELSE LET edge == w.edges[i]
       IN revPopulate(w, i + 1,
            IF MapHas(rev, edge.target)
            THEN MapSet(rev, edge.target, Append(rev.val[edge.target], edge.id))
            ELSE rev)

buildReverseAdjacencyList(w) == revPopulate(w, 1, InitMap(w.nodes, 1, <<>>))

RECURSIVE degreesCount(_, _, _)
degreesCount(w, i, degrees) ==
  IF i > Len(w.edges) THEN degrees
  ELSE LET edge == w.edges[i]
           current == IF MapHas(degrees, edge.target) THEN degrees.val[edge.target] ELSE 0
       IN degreesCount(w, i + 1, MapSet(degrees, edge.target, current + 1))

computeInDegrees(w) == degreesCount(w, 1, InitMap(w.nodes, 1, 0))

findEntryNodes(w) ==
  LET inDegrees == computeInDegrees(w)
  IN SelectSeq(inDegrees.keys, LAMBDA nodeId : inDegrees.val[nodeId] = 0)

findExitNodes(w) ==
  LET adj == buildAdjacencyList(w)
  IN SelectSeq(adj.keys, LAMBDA nodeId : Len(adj.val[nodeId]) = 0)

\* adj.get(nodeId) ?? []
AdjGet(adj, nodeId) == IF MapHas(adj, nodeId) THEN adj.val[nodeId] ELSE <<>>

\* ------------------------------------------------------------------------
\* validation/structural.ts
\* ------------------------------------------------------------------------
\* S2: every edge must reference existing nodes.
RECURSIVE edgeReferenceErrors(_, _)
edgeReferenceErrors(w, i) ==
  IF i > Len(w.edges) THEN <<>>
  ELSE LET edge == w.edges[i]
           src == IF ~HasNode(w, edge.source)
                  THEN <<ValidationError("INVALID_EDGE_REFERENCE", "non-existent source node",
                                         <<edge.source>>, <<edge.id>>)>>
                  ELSE <<>>
           tgt == IF ~HasNode(w, edge.target)
                  THEN <<ValidationError("INVALID_EDGE_REFERENCE", "non-existent target node",
                                         <<edge.target>>, <<edge.id>>)>>
                  ELSE <<>>
       IN src \o tgt \o edgeReferenceErrors(w, i + 1)

validateEdgeReferences(w) == Completed(edgeReferenceErrors(w, 1))

\* S3: no duplicate edges between the same (source, sourcePort, target, targetPort).
\* `${edge.source}:${edge.sourcePort}->${edge.target}:${edge.targetPort}`
EdgeKey(edge) ==
  edge.source \o ":" \o edge.sourcePort \o "->" \o edge.target \o ":" \o edge.targetPort

\* if (existing): an EdgeId is truthy unless it is the empty string
Truthy(edgeId) == edgeId # ""

RECURSIVE duplicateEdgeErrors(_, _, _)
duplicateEdgeErrors(w, i, seen) ==
  IF i > Len(w.edges) THEN <<>>
  ELSE LET edge == w.edges[i]
           key == EdgeKey(edge)
       IN IF MapHas(seen, key) /\ Truthy(seen.val[key])
          THEN <<ValidationError("DUPLICATE_EDGE", "Duplicate edge between same ports",
                                 <<>>, <<seen.val[key], edge.id>>)>>
               \o duplicateEdgeErrors(w, i + 1, seen)
          ELSE duplicateEdgeErrors(w, i + 1, MapSet(seen, key, edge.id))

validateNoDuplicateEdges(w) == Completed(duplicateEdgeErrors(w, 1, EmptyMap))

\* S4: the workflow must have at least one entry node.
validateHasEntryNode(w) ==
  IF Len(w.nodes) = 0
  THEN Completed(<<ValidationError("NO_ENTRY_NODE", "Workflow has no nodes", <<>>, <<>>)>>)
  ELSE IF Len(findEntryNodes(w)) = 0
       THEN Completed(<<ValidationError("NO_ENTRY_NODE", "Workflow has no entry nodes",
                                        <<>>, <<>>)>>)
       ELSE Completed(<<>>)

\* S1: cycle detection, DFS with three-colour marking.
\* D = [state: Map NodeId -> 0|1|2, cycleNodes: Seq, steps: Nat, abort]
\* dfs(..) yields [found: BOOLEAN, D: the mutated closure variables].
DfsBackEdge(D, nodeId) == MapHas(D.state, nodeId) /\ D.state.val[nodeId] = 1

DfsProcessed(D, nodeId) == MapHas(D.state, nodeId) /\ D.state.val[nodeId] = 2

RECURSIVE dfs(_, _, _, _)
RECURSIVE dfsOutgoing(_, _, _, _, _, _)
dfs(w, adj, nodeId, D) ==
  IF D.abort # "none" THEN [found |-> FALSE, D |-> D]
  ELSE IF D.steps >= MaxSteps THEN [found |-> FALSE, D |-> [D EXCEPT !.abort = "diverge"]]
  ELSE IF DfsProcessed(D, nodeId) THEN [found |-> FALSE, D |-> D]
  ELSE IF DfsBackEdge(D, nodeId) THEN [found |-> TRUE, D |-> D]
  ELSE LET D1 == [D EXCEPT !.state = MapSet(D.state, nodeId, 1), !.steps = D.steps + 1]
       IN dfsOutgoing(w, adj, nodeId, AdjGet(adj, nodeId), 1, D1)

dfsOutgoing(w, adj, nodeId, outgoing, i, D) ==
  IF D.abort # "none" THEN [found |-> FALSE, D |-> D]
  ELSE IF i > Len(outgoing)
  THEN [found |-> FALSE, D |-> [D EXCEPT !.state = MapSet(D.state, nodeId, 2)]]
  ELSE IF EdgesGet(w, outgoing[i]) = {}
  THEN [found |-> FALSE, D |-> [D EXCEPT !.abort = "throw"]]
  ELSE LET edge == EdgeOf(w, outgoing[i])
           r == dfs(w, adj, edge.target, D)
       IN IF r.D.abort # "none" THEN r
          ELSE IF r.found
          THEN [found |-> TRUE,
                D |-> [r.D EXCEPT !.cycleNodes = Append(r.D.cycleNodes, nodeId)]]
          ELSE dfsOutgoing(w, adj, nodeId, outgoing, i + 1, r.D)

RECURSIVE noCyclesLoop(_, _, _, _)
noCyclesLoop(w, adj, i, D) ==
  IF D.abort # "none" THEN Aborted(D.abort)
  ELSE IF i > Len(w.nodes) THEN Completed(<<>>)
  ELSE IF D.state.val[w.nodes[i]] = 0
  THEN LET r == dfs(w, adj, w.nodes[i], D)
       IN IF r.D.abort # "none" THEN Aborted(r.D.abort)
          ELSE IF r.found
          THEN Completed(<<ValidationError("CYCLE_DETECTED", "Workflow contains a cycle",
                                           r.D.cycleNodes, <<>>)>>)
          ELSE noCyclesLoop(w, adj, i + 1, r.D)
  ELSE noCyclesLoop(w, adj, i + 1, D)

validateNoCycles(w) ==
  noCyclesLoop(w, buildAdjacencyList(w), 1,
               [state |-> InitMap(w.nodes, 1, 0), cycleNodes |-> <<>>,
                steps |-> 0, abort |-> "none"])

\* S5: orphan detection, BFS forward from entries and backward from exits.
\* forward = TRUE walks adj to edge.target, FALSE walks revAdj to edge.source.
BfsSeen(visited, nodeId) == nodeId \in visited

RECURSIVE bfsNeighbours(_, _, _, _)
bfsNeighbours(w, edgeIds, i, forward) ==
  IF i > Len(edgeIds) THEN [ids |-> <<>>, abort |-> "none"]
  ELSE IF EdgesGet(w, edgeIds[i]) = {} THEN [ids |-> <<>>, abort |-> "throw"]
  ELSE LET edge == EdgeOf(w, edgeIds[i])
           rest == bfsNeighbours(w, edgeIds, i + 1, forward)
       IN [ids |-> <<IF forward THEN edge.target ELSE edge.source>> \o rest.ids,
           abort |-> rest.abort]

RECURSIVE bfs(_, _, _, _, _, _)
bfs(w, links, queue, visited, forward, steps) ==
  IF Len(queue) = 0 THEN [visited |-> visited, abort |-> "none"]
  ELSE IF steps >= MaxSteps THEN [visited |-> visited, abort |-> "diverge"]
  ELSE LET nodeId == Head(queue)
       IN IF BfsSeen(visited, nodeId)
          THEN bfs(w, links, Tail(queue), visited, forward, steps + 1)
          ELSE LET next == bfsNeighbours(w, AdjGet(links, nodeId), 1, forward)
               IN IF next.abort # "none"
                  THEN [visited |-> visited, abort |-> next.abort]
                  ELSE bfs(w, links, Tail(queue) \o next.ids, visited \cup {nodeId},
                           forward, steps + 1)

validateNoOrphans(w) ==
  LET entries == findEntryNodes(w)
      exits == findExitNodes(w)
      fwd == bfs(w, buildAdjacencyList(w), entries, {}, TRUE, 0)
      bwd == bfs(w, buildReverseAdjacencyList(w), exits, {}, FALSE, 0)
      orphans == SelectSeq(w.nodes,
                   LAMBDA nodeId : nodeId \notin fwd.visited /\ nodeId \notin bwd.visited)
  IN IF fwd.abort # "none" THEN Aborted(fwd.abort)
     ELSE IF bwd.abort # "none" THEN Aborted(bwd.abort)
     ELSE IF Len(orphans) > 0
     THEN Completed(<<ValidationError("ORPHAN_NODE", "Found orphan node(s)", orphans, <<>>)>>)
     ELSE Completed(<<>>)

\* ------------------------------------------------------------------------
\* validation/semantic.ts
\* ------------------------------------------------------------------------
\* registry.get(agentId) is defined
RegistryHas(registry, agentId) == agentId \in registry

\* ports.find((p) => p.name === name): the matching ports, first one first
FindPort(ports, name) == SelectSeq(ports, LAMBDA p : p.name = name)

areTypesCompatible(source, target) == source = target

\* the skip with the target node left unchecked: if (!sourceNode) continue;
SkipMissingNodes_targetUnchecked(w, edge) == ~HasNode(w, edge.source)

\* if (!sourceNode || !targetNode) continue;
SkipMissingNodes(w, edge) == ~HasNode(w, edge.source) \/ ~HasNode(w, edge.target)

\* M1 for one edge: [errors, abort]
typeCompatibilityOfEdge(w, registry, edge) ==
  IF SkipMissingNodes(w, edge) THEN Completed(<<>>)
  ELSE IF ~HasNode(w, edge.source) \/ ~HasNode(w, edge.target)
  THEN Aborted("throw")       \* reads .config of undefined
  ELSE LET sourceAgentId == NodeOf(edge.source).config.agentId
           targetAgentId == NodeOf(edge.target).config.agentId
       IN IF sourceAgentId = Undefined \/ targetAgentId = Undefined THEN Completed(<<>>)
          ELSE IF ~RegistryHas(registry, sourceAgentId) \/ ~RegistryHas(registry, targetAgentId)
          THEN Completed(<<ValidationError("TYPE_MISMATCH", "Unknown agent definition referenced",
                                           <<edge.source, edge.target>>, <<edge.id>>)>>)
          ELSE LET sourcePort == FindPort(AgentDefinition(sourceAgentId).outputSchema.ports,
                                          edge.sourcePort)
                   targetPort == FindPort(AgentDefinition(targetAgentId).inputSchema.ports,
                                          edge.targetPort)
               IN IF Len(sourcePort) = 0
                  THEN Completed(<<ValidationError("TYPE_MISMATCH", "Source node has no output port",
                                                   <<edge.source>>, <<edge.id>>)>>)
                  ELSE IF Len(targetPort) = 0
                  THEN Completed(<<ValidationError("TYPE_MISMATCH", "Target node has no input port",
                                                   <<edge.target>>, <<edge.id>>)>>)
                  ELSE IF ~areTypesCompatible(sourcePort[1].type, targetPort[1].type)
                  THEN Completed(<<ValidationError("TYPE_MISMATCH", "Type mismatch",
                                                   <<edge.source, edge.target>>, <<edge.id>>)>>)
                  ELSE Completed(<<>>)

RECURSIVE typeCompatibilityLoop(_, _, _)
typeCompatibilityLoop(w, registry, i) ==
  IF i > Len(w.edges) THEN Completed(<<>>)
  ELSE LET r == typeCompatibilityOfEdge(w, registry, w.edges[i])
       IN IF r.abort # "none" THEN r
          ELSE LET rest == typeCompatibilityLoop(w, registry, i + 1)
               IN IF rest.abort # "none" THEN rest
                  ELSE Completed(r.errors \o rest.errors)

validateTypeCompatibility(w, registry) == typeCompatibilityLoop(w, registry, 1)

\* the targetPort of every incoming edge: [ports: set, abort]
RECURSIVE connectedPortsOf(_, _, _)
connectedPortsOf(w, incomingEdgeIds, i) ==
  IF i > Len(incomingEdgeIds) THEN [ports |-> {}, abort |-> "none"]
  ELSE IF EdgesGet(w, incomingEdgeIds[i]) = {} THEN [ports |-> {}, abort |-> "throw"]
  ELSE LET rest == connectedPortsOf(w, incomingEdgeIds, i + 1)
       IN [ports |-> {EdgeOf(w, incomingEdgeIds[i]).targetPort} \cup rest.ports,
           abort |-> rest.abort]

\* M2 for one node with only the first port of the schema looked at
requiredInputsOfNode_firstPortOnly(w, registry, revAdj, nodeId) ==
  LET agentId == NodeOf(nodeId).config.agentId
  IN IF agentId = Undefined THEN Completed(<<>>)
     ELSE IF ~RegistryHas(registry, agentId) THEN Completed(<<>>)
     ELSE LET connected == connectedPortsOf(w, AdjGet(revAdj, nodeId), 1)
              missingPorts == SelectSeq(SubSeq(AgentDefinition(agentId).inputSchema.ports, 1, 1),
                                LAMBDA port : port.required /\ port.name \notin connected.ports)
          IN IF connected.abort # "none" THEN Aborted(connected.abort)
             ELSE IF Len(missingPorts) > 0
             THEN Completed(<<ValidationError("MISSING_REQUIRED_INPUT", "Missing required inputs",
                                              <<nodeId>>, <<>>)>>)
             ELSE Completed(<<>>)

\* M2 for one node: [errors, abort]
requiredInputsOfNode(w, registry, revAdj, nodeId) ==
  LET agentId == NodeOf(nodeId).config.agentId
  IN IF agentId = Undefined THEN Completed(<<>>)
     ELSE IF ~RegistryHas(registry, agentId) THEN Completed(<<>>)
     ELSE LET connected == connectedPortsOf(w, AdjGet(revAdj, nodeId), 1)
              missingPorts == SelectSeq(AgentDefinition(agentId).inputSchema.ports,
                                LAMBDA port : port.required /\ port.name \notin connected.ports)
          IN IF connected.abort # "none" THEN Aborted(connected.abort)
             ELSE IF Len(missingPorts) > 0
             THEN Completed(<<ValidationError("MISSING_REQUIRED_INPUT", "Missing required inputs",
                                              <<nodeId>>, <<>>)>>)
             ELSE Completed(<<>>)

RECURSIVE requiredInputsLoop(_, _, _, _)
requiredInputsLoop(w, registry, revAdj, i) ==
  IF i > Len(w.nodes) THEN Completed(<<>>)
  ELSE LET r == requiredInputsOfNode(w, registry, revAdj, w.nodes[i])
       IN IF r.abort # "none" THEN r
          ELSE LET rest == requiredInputsLoop(w, registry, revAdj, i + 1)
               IN IF rest.abort # "none" THEN rest
                  ELSE Completed(r.errors \o rest.errors)

validateRequiredInputs(w, registry) ==
  requiredInputsLoop(w, registry, buildReverseAdjacencyList(w), 1)

\* ------------------------------------------------------------------------
\* validation/topological.ts
\* ------------------------------------------------------------------------
\* K = [queue, inDegrees]: the for loop over the outgoing edges of one node
RECURSIVE kahnOutgoing(_, _, _, _)
kahnOutgoing(w, outgoing, i, K) ==
  IF i > Len(outgoing) THEN K
  ELSE LET edge == EdgeOf(w, outgoing[i])
           newDegree == K.inDegrees.val[edge.target] - 1
       IN kahnOutgoing(w, outgoing, i + 1,
            [queue |-> IF newDegree = 0 THEN Append(K.queue, edge.target) ELSE K.queue,
             inDegrees |-> MapSet(K.inDegrees, edge.target, newDegree)])

RECURSIVE kahnLoop(_, _, _, _)
kahnLoop(w, adj, K, order) ==
  IF Len(K.queue) = 0 THEN order
  ELSE LET nodeId == Head(K.queue)
       IN kahnLoop(w, adj,
                   kahnOutgoing(w, AdjGet(adj, nodeId), 1,
                                [K EXCEPT !.queue = Tail(K.queue)]),
                   Append(order, nodeId))

\* topologicalSort with the final length test left out
topologicalSort_noLengthCheck(w) ==
  IF Len(w.nodes) = 0 THEN [success |-> TRUE, order |-> <<>>]
  ELSE LET adj == buildAdjacencyList(w)
           inDegrees == computeInDegrees(w)
           queue == SelectSeq(inDegrees.keys, LAMBDA nodeId : inDegrees.val[nodeId] = 0)
           order == kahnLoop(w, adj, [queue |-> queue, inDegrees |-> inDegrees], <<>>)
       IN [success |-> TRUE, order |-> order]

topologicalSort(w) ==
  IF Len(w.nodes) = 0 THEN [success |-> TRUE, order |-> <<>>]
  ELSE LET adj == buildAdjacencyList(w)
           inDegrees == computeInDegrees(w)
           queue == SelectSeq(inDegrees.keys, LAMBDA nodeId : inDegrees.val[nodeId] = 0)
           order == kahnLoop(w, adj, [queue |-> queue, inDegrees |-> inDegrees], <<>>)
       IN IF Len(order) # Len(w.nodes)
          THEN [success |-> FALSE, reason |-> "cycle_detected"]
          ELSE [success |-> TRUE, order |-> order]

\* Math.max(existingLevel, currentLevel) : the + 1 left out
TargetLevel_noIncrement(existingLevel, currentLevel) ==
  IF existingLevel >= currentLevel THEN existingLevel ELSE currentLevel

\* Math.max(existingLevel, currentLevel + 1)
TargetLevel(existingLevel, currentLevel) ==
  IF existingLevel >= currentLevel + 1 THEN existingLevel ELSE currentLevel + 1

\* L = [queue, inDegrees, levels]: the for loop over the outgoing edges of one node
RECURSIVE levelsOutgoing(_, _, _, _, _)
levelsOutgoing(w, outgoing, i, currentLevel, L) ==
  IF i > Len(outgoing) THEN L
  ELSE LET edge == EdgeOf(w, outgoing[i])
           newDegree == L.inDegrees.val[edge.target] - 1
           existingLevel == IF MapHas(L.levels, edge.target) THEN L.levels.val[edge.target] ELSE 0
       IN levelsOutgoing(w, outgoing, i + 1, currentLevel,
            [queue |-> IF newDegree = 0 THEN Append(L.queue, edge.target) ELSE L.queue,
             inDegrees |-> MapSet(L.inDegrees, edge.target, newDegree),
             levels |-> MapSet(L.levels, edge.target, TargetLevel(existingLevel, currentLevel))])

RECURSIVE levelsLoop(_, _, _)
levelsLoop(w, adj, L) ==
  IF Len(L.queue) = 0 THEN L.levels
  ELSE LET nodeId == Head(L.queue)
       IN levelsLoop(w, adj,
                     levelsOutgoing(w, AdjGet(adj, nodeId), 1, L.levels.val[nodeId],
                                    [L EXCEPT !.queue = Tail(L.queue)]))

\* the returned Map NodeId -> level
computeExecutionLevels(w) ==
  LET adj == buildAdjacencyList(w)
      inDegrees == computeInDegrees(w)
      queue == SelectSeq(inDegrees.keys, LAMBDA nodeId : inDegrees.val[nodeId] = 0)
  IN levelsLoop(w, adj, [queue |-> queue, inDegrees |-> inDegrees,
                         levels |-> InitMap(queue, 1, 0)])

\* ------------------------------------------------------------------------
\* validation/index.ts
\* ------------------------------------------------------------------------
\* The run of the rules in the orchestrator's order. A = [allErrors, done,
\* abort]; done is set when collectErrors signals the early exit.
\* collectErrors with the early-exit signal left out: it never returns true
collectErrors_noEarlyExit(A, result, failFast) ==
  IF A.done \/ A.abort # "none" THEN A
  ELSE IF result.abort # "none" THEN [A EXCEPT !.abort = result.abort]
  ELSE IF Len(result.errors) > 0
  THEN [A EXCEPT !.allErrors = A.allErrors \o result.errors]
  ELSE A

collectErrors(A, result, failFast) ==
  IF A.done \/ A.abort # "none" THEN A
  ELSE IF result.abort # "none" THEN [A EXCEPT !.abort = result.abort]
  ELSE IF Len(result.errors) > 0
  THEN [A EXCEPT !.allErrors = A.allErrors \o result.errors, !.done = failFast]
  ELSE A

Returned(value) == [outcome |-> "returned", value |-> value]

\* One rule of the orchestrator: skipped after an early exit, else run and
\* its result collected.
afterS2(w, failFast) ==
  collectErrors([allErrors |-> <<>>, done |-> FALSE, abort |-> "none"],
                validateEdgeReferences(w), failFast)

afterS3(w, failFast, A) ==
  IF A.done THEN A ELSE collectErrors(A, validateNoDuplicateEdges(w), failFast)

afterS4(w, failFast, A) ==
  IF A.done THEN A ELSE collectErrors(A, validateHasEntryNode(w), failFast)

afterS1(w, failFast, A) ==
  IF A.done THEN A ELSE collectErrors(A, validateNoCycles(w), failFast)

afterS5(w, failFast, A) ==
  IF A.done THEN A ELSE collectErrors(A, validateNoOrphans(w), failFast)

\* if (allErrors.length > 0 && !agentRegistry) return invalidResult(allErrors)
afterStructural(options, A) ==
  IF A.done \/ A.abort # "none" THEN A
  ELSE IF Len(A.allErrors) > 0 /\ ~options.hasRegistry THEN [A EXCEPT !.done = TRUE]
  ELSE A

afterM1(w, options, A) ==
  IF A.done \/ ~options.hasRegistry THEN A
  ELSE collectErrors(A, validateTypeCompatibility(w, options.agentRegistry), options.failFast)

afterM2(w, options, A) ==
  IF A.done \/ ~options.hasRegistry THEN A
  ELSE collectErrors(A, validateRequiredInputs(w, options.agentRegistry), options.failFast)

validateWorkflowReturn(A) ==
  IF A.abort # "none" THEN [outcome |-> A.abort]
  ELSE IF Len(A.allErrors) = 0 THEN Returned(validResult)
  ELSE Returned(invalidResult(A.allErrors))

validateWorkflow(w, options) ==
  validateWorkflowReturn(
    afterM2(w, options,
      afterM1(w, options,
        afterStructural(options,
          afterS5(w, options.failFast,
            afterS1(w, options.failFast,
              afterS4(w, options.failFast,
                afterS3(w, options.failFast,
                  afterS2(w, options.failFast)))))))))

\* ------------------------------------------------------------------------
\* State
\* ------------------------------------------------------------------------
VARIABLES
  workflow,         \* the snapshot handed to the validator: [nodes: Seq, edges: Seq]
  call,             \* the last call made on the snapshot and what it returned
  activeExecution,  \* execution store: None or Some(Execution)
  isExecuting,      \* execution store
  nodeStates,       \* execution store: Map nodeId -> NodeExecutionState
  logs,             \* execution store: Seq of ExecutionLog
  isResuming,       \* execution store
  resumeInfo,       \* execution store: None or Some(record)
  reusedOutputNodes,\* execution store: Set of nodeId
  now,              \* the wall clock read by new Date()
  lastEvent,        \* kind and nodeId of the message ws.onmessage handed to handleEvent last
  everRunning,      \* history: the nodes whose status has been running since nodeStates was reset
  added,            \* history: the entries handed to addLog since logs was reset
  storeWorkflow,    \* workflow store: None or Some([status, nodes, edges])
  isDirty,          \* workflow store
  validationErrors, \* workflow store: Seq of ValidationError codes
  executionOrder,   \* workflow store: None or Some(order)
  lastEdit,         \* name of the workflow-store action applied last
  pendingValidation,\* None or Some(snapshot): the graph of a validation request in flight
  validatedSnapshot,\* history: None or Some(snapshot) of the last response with zero errors
  canvasNodes,      \* canvas store: Seq of [id, type]
  canvasEdges,      \* canvas store: Seq of [id, source, target, sourceHandle, targetHandle]
  selectedNodeIds,  \* canvas store: Seq of node ids
  selectedEdgeIds,  \* canvas store: Seq of edge ids
  ws,               \* readyState of the socket the mounted effect created ("none": no socket)
  wsRef,            \* wsRef.current: "null", the effect's socket ("current") or an older one ("stale")
  closingSockets,   \* sockets closed by an effect cleanup whose onclose is still to be delivered
  effectExecutionId,\* the executionId the mounted effect ran with
  isConnected,      \* execution store
  connectionError,  \* execution store: None or Some(message)
  subscribed,       \* a subscribe message went out on the effect's socket
  lastSent          \* the ClientMessage handed to ws.send last

validatorVars == <<workflow, call>>

storeVars == <<activeExecution, isExecuting, nodeStates, logs, isResuming, resumeInfo,
               reusedOutputNodes>>

clientVars == <<storeVars, now, lastEvent, everRunning, added>>

validationVars == <<pendingValidation, validatedSnapshot>>

editorVars == <<storeWorkflow, isDirty, validationErrors, executionOrder, lastEdit,
                validationVars>>

hookVars == <<ws, wsRef, closingSockets, effectExecutionId, isConnected, connectionError,
              subscribed, lastSent>>

canvasVars == <<canvasNodes, canvasEdges, selectedNodeIds, selectedEdgeIds>>

vars == <<validatorVars, clientVars, editorVars, hookVars, canvasVars>>

NoCall == [fn |-> "none"]

\* ValidateWorkflowOptions: agentRegistry?: AgentRegistry, failFast?: boolean
DefaultOptions == [hasRegistry |-> FALSE, agentRegistry |-> {}, failFast |-> FALSE]

OptionsPool ==
  {[hasRegistry |-> FALSE, agentRegistry |-> {}, failFast |-> ff] : ff \in BOOLEAN}
  \cup {[hasRegistry |-> TRUE, agentRegistry |-> r, failFast |-> ff] :
          r \in {RegistryFull, RegistryPartial}, ff \in BOOLEAN}

\* ------------------------------------------------------------------------
\* Workflow snapshots
\* ------------------------------------------------------------------------
IsInjective(s) == \A i, j \in DOMAIN s : s[i] = s[j] => i = j

NodeSeqs ==
  {s \in UNION {[1..k -> NodeIdPool] : k \in 0..MaxNodes} : IsInjective(s)}

EdgeShapes ==
  [source : NodeIdPool, sourcePort : SourcePorts, target : NodeIdPool, targetPort : TargetPorts]

WithEdgeIds(shapes) ==
  [i \in DOMAIN shapes |->
     [id |-> EdgeIdAt[i], source |-> shapes[i].source, sourcePort |-> shapes[i].sourcePort,
      target |-> shapes[i].target, targetPort |-> shapes[i].targetPort]]

EdgeSeqs == {WithEdgeIds(s) : s \in UNION {[1..k -> EdgeShapes] : k \in 0..MaxEdges}}

Workflows == [nodes : NodeSeqs, edges : EdgeSeqs]

\* Snapshots of the semantic rules: an input node, an agent node with two
\* required input ports and a tool node whose config names an agent; edges
\* over declared and undeclared port names.
SemNodeOrder == <<"a", "d", "t">>

SemNodeSeqs == {SelectSeq(SemNodeOrder, LAMBDA x : x \in S) : S \in SUBSET Range(SemNodeOrder)}

SemEdgeShapes ==
  [source : Range(SemNodeOrder), sourcePort : {"out", "err"},
   target : Range(SemNodeOrder), targetPort : {"in", "aux"}]

SemEdgeSeqs == {WithEdgeIds(s) : s \in UNION {[1..k -> SemEdgeShapes] : k \in 0..MaxSemEdges}}

SemWorkflows == [nodes : SemNodeSeqs, edges : SemEdgeSeqs]

SemRegistryFull == {"A1", "A3"}
SemRegistryPartial == {"A3"}

SemOptionsPool ==
  {[hasRegistry |-> TRUE, agentRegistry |-> r, failFast |-> FALSE] :
     r \in {SemRegistryFull, SemRegistryPartial}}

\* Snapshots of the duplicate-edge rule: node ids and port names are free
\* strings, here with and without the characters the key is assembled with;
\* the first edge id is "e1" or the empty string.
DupEdgeShapes ==
  [source : {"a", "a:out"}, sourcePort : {"out", "out:out"},
   target : {"b"}, targetPort : {"in", "aux"}]

WithBlankFirstId(edges) ==
  [i \in DOMAIN edges |-> IF i = 1 THEN [edges[i] EXCEPT !.id = ""] ELSE edges[i]]

DupEdgeSeqs ==
  LET plain == {WithEdgeIds(s) : s \in UNION {[1..k -> DupEdgeShapes] : k \in 0..MaxDupEdges}}
  IN plain \cup {WithBlankFirstId(edges) : edges \in plain}

DupWorkflows == [nodes : {<<"a", "b">>}, edges : DupEdgeSeqs]

\* the same edges (same ids, same endpoints) in another insertion order
EdgeOrders(n) == {p \in [1..n -> 1..n] : IsInjective(p)}

Reordered(edges, p) == [i \in DOMAIN edges |-> edges[p[i]]]

\* ------------------------------------------------------------------------
\* apps/web/src/stores/execution-store.ts
\* ------------------------------------------------------------------------
\* null / undefined and present values of a nullable field
None == <<>>

Some(x) == <<x>>

LogLimit == 1000

ExecNodeIds == {"n1"}

ExecutionIds == {"x1"}

\* the execution handleRun hands to startExecution
NewExecution(id) == [id |-> id, status |-> "pending", completedAt |-> None]

\* object spread { ...current, ...updates } over records
Merge(current, updates) ==
  [f \in DOMAIN current \cup DOMAIN updates |->
     IF f \in DOMAIN updates THEN updates[f] ELSE current[f]]

DefaultNodeState(nodeId) ==
  [nodeId |-> nodeId, status |-> "pending", startedAt |-> None, completedAt |-> None,
   retryCount |-> 0, error |-> None, output |-> None]

MapPut(m, k, v) == [x \in DOMAIN m \cup {k} |-> IF x = k THEN v ELSE m[x]]

updateNodeState(ns, nodeId, updates) ==
  IF nodeId \in DOMAIN ns
  THEN MapPut(ns, nodeId, Merge(ns[nodeId], updates))
  ELSE MapPut(ns, nodeId, Merge(DefaultNodeState(nodeId), updates))

\* the started / completed stamps setNodeStatus adds to { status }
StartedStamp_everyRun(ns, nodeId, status, t) ==
  IF status = "running" THEN [startedAt |-> Some(t)] ELSE <<>>

StartedStamp(ns, nodeId, status, t) ==
  IF status = "running" /\ (nodeId \notin DOMAIN ns \/ ns[nodeId].startedAt = None)
  THEN [startedAt |-> Some(t)] ELSE <<>>

CompletedStamp(status, t) ==
  IF status \in {"completed", "failed", "skipped"} THEN [completedAt |-> Some(t)] ELSE <<>>

\* setNodeStatus builds the updates and hands them to updateNodeState from inside
\* its own set() recipe. The recipe itself writes nothing; the update is taken to
\* land as the source reads (the store library is not part of src/).
setNodeStatus(ns, nodeId, status, t) ==
  updateNodeState(ns, nodeId,
    Merge(Merge([status |-> status], StartedStamp(ns, nodeId, status, t)),
          CompletedStamp(status, t)))

updateExecution(exec, updates) ==
  IF exec # None THEN Some(Merge(exec[1], updates)) ELSE exec

\* completeExecution's new activeExecution (it also clears isExecuting)
completeExecution(exec, status, t) ==
  IF exec # None THEN Some(Merge(exec[1], [status |-> status, completedAt |-> Some(t)]))
  ELSE exec

addLog_keepOldest(ls, log) ==
  LET pushed == Append(ls, log)
  IN IF Len(pushed) > LogLimit THEN SubSeq(pushed, 1, LogLimit) ELSE pushed

addLog(ls, log) ==
  LET pushed == Append(ls, log)
  IN IF Len(pushed) > LogLimit
     THEN SubSeq(pushed, Len(pushed) - LogLimit + 1, Len(pushed))
     ELSE pushed

\* x || dflt on an optional payload field
OrElse(x, dflt) == IF x = None THEN dflt ELSE x[1]

ExecutionEvents ==
  {"EXECUTION_STARTED", "EXECUTION_COMPLETED", "EXECUTION_FAILED", "EXECUTION_CANCELLED"}

NodeEvents ==
  {"NODE_QUEUED", "NODE_RUNNING", "NODE_COMPLETED", "NODE_FAILED", "NODE_SKIPPED",
   "NODE_CACHE_HIT"}

LogEvents == {"LOG_EMITTED", "RESUME_START", "NODE_OUTPUT_REUSED", "RESUME_COMPLETE"}

OtherEvents == {"CONNECTED", "ACK", "ERROR"}

\* The messages the socket can deliver: kind, executionId and the payload
\* fields handleEvent reads.
EventPool ==
  {[event |-> k, executionId |-> x, nodeId |-> None, retryCount |-> None, error |-> None,
    reason |-> None] : k \in ExecutionEvents \cup OtherEvents \cup {"RESUME_START", "RESUME_COMPLETE"},
                       x \in ExecutionIds}
  \cup
  {[event |-> k, executionId |-> x, nodeId |-> n, retryCount |-> None, error |-> None,
    reason |-> None] : k \in (NodeEvents \cup {"LOG_EMITTED", "NODE_OUTPUT_REUSED"}),
                       x \in ExecutionIds, n \in {None} \cup {Some(i) : i \in ExecNodeIds}}
  \cup
  {[event |-> "NODE_RUNNING", executionId |-> x, nodeId |-> Some(n), retryCount |-> Some(1),
    error |-> None, reason |-> None] : x \in ExecutionIds, n \in ExecNodeIds}
  \cup
  {[event |-> "NODE_FAILED", executionId |-> x, nodeId |-> Some(n), retryCount |-> None,
    error |-> Some("boom"), reason |-> None] : x \in ExecutionIds, n \in ExecNodeIds}

\* handleEvent's effect on activeExecution
handleEventExecution(e, exec, t) ==
  CASE e.event = "EXECUTION_STARTED"   -> updateExecution(exec, [status |-> "running"])
    [] e.event = "EXECUTION_COMPLETED" -> completeExecution(exec, "completed", t)
    [] e.event = "EXECUTION_FAILED"    -> completeExecution(exec, "failed", t)
    [] e.event = "EXECUTION_CANCELLED" -> completeExecution(exec, "cancelled", t)
    [] OTHER -> exec

\* handleEvent's effect on isExecuting
handleEventIsExecuting(e, executing) ==
  IF e.event \in {"EXECUTION_COMPLETED", "EXECUTION_FAILED", "EXECUTION_CANCELLED"}
  THEN FALSE ELSE executing

\* handleEvent's effect on nodeStates
handleEventNodeStates(e, ns, t) ==
  IF e.nodeId = None THEN ns
  ELSE LET nodeId == e.nodeId[1]
       IN CASE e.event = "NODE_QUEUED" -> setNodeStatus(ns, nodeId, "queued", t)
            [] e.event = "NODE_RUNNING" ->
                 updateNodeState(setNodeStatus(ns, nodeId, "running", t), nodeId,
                                 [retryCount |-> OrElse(e.retryCount, 0)])
            [] e.event = "NODE_COMPLETED" -> setNodeStatus(ns, nodeId, "completed", t)
            [] e.event = "NODE_FAILED" ->
                 updateNodeState(setNodeStatus(ns, nodeId, "failed", t), nodeId,
                                 [error |-> Some(OrElse(e.error, "Unknown error"))])
            [] e.event = "NODE_SKIPPED" ->
                 updateNodeState(setNodeStatus(ns, nodeId, "skipped", t), nodeId,
                                 [error |-> Some(OrElse(e.reason, "Skipped"))])
            [] OTHER -> ns

\* handleEvent's effect on logs (timestamp is the event's)
handleEventLogs(e, ls, timestamp) ==
  CASE e.event = "LOG_EMITTED" /\ e.nodeId # None ->
         addLog(ls, [timestamp |-> timestamp, nodeId |-> e.nodeId[1], level |-> "info",
                     message |-> ""])
    [] e.event = "RESUME_START" ->
         addLog(ls, [timestamp |-> timestamp, nodeId |-> "", level |-> "info",
                     message |-> "Resumed from node"])
    [] e.event = "NODE_OUTPUT_REUSED" /\ e.nodeId # None ->
         addLog(ls, [timestamp |-> timestamp, nodeId |-> e.nodeId[1], level |-> "info",
                     message |-> "Output reused"])
    [] e.event = "RESUME_COMPLETE" ->
         addLog(ls, [timestamp |-> timestamp, nodeId |-> "", level |-> "info",
                     message |-> "Resume completed"])
    [] OTHER -> ls

handleEvent(e) ==
  /\ activeExecution' = handleEventExecution(e, activeExecution, now)
  /\ isExecuting' = handleEventIsExecuting(e, isExecuting)
  /\ nodeStates' = handleEventNodeStates(e, nodeStates, now)
  /\ logs' = handleEventLogs(e, logs, now)
  /\ resumeInfo' = IF e.event = "RESUME_START"
                   THEN Some([parentExecutionId |-> "", resumedFromNodeId |-> "",
                              skippedCount |-> 0, rerunCount |-> 0])
                   ELSE resumeInfo
  /\ reusedOutputNodes' = IF e.event = "NODE_OUTPUT_REUSED" /\ e.nodeId # None
                          THEN reusedOutputNodes \cup {e.nodeId[1]}
                          ELSE reusedOutputNodes
  /\ isResuming' = IF e.event = "RESUME_COMPLETE" THEN FALSE ELSE isResuming

\* ------------------------------------------------------------------------
\* Client actions
\* ------------------------------------------------------------------------
\* workflow-store.ts initialState
InitEditor ==
  /\ storeWorkflow = None
  /\ isDirty = FALSE
  /\ validationErrors = <<>>
  /\ executionOrder = None
  /\ lastEdit = "none"
  /\ pendingValidation = None
  /\ validatedSnapshot = None

\* no effect has run yet; isConnected and connectionError as in the execution
\* store's initialState
InitHook ==
  /\ ws = "none"
  /\ wsRef = "null"
  /\ closingSockets = 0
  /\ effectExecutionId = None
  /\ isConnected = FALSE
  /\ connectionError = None
  /\ subscribed = FALSE
  /\ lastSent = None

\* canvas-store.ts initialState
InitCanvas ==
  /\ canvasNodes = <<>>
  /\ canvasEdges = <<>>
  /\ selectedNodeIds = <<>>
  /\ selectedEdgeIds = <<>>

InitClient ==
  /\ InitEditor
  /\ InitHook
  /\ InitCanvas
  /\ activeExecution = None
  /\ isExecuting = FALSE
  /\ nodeStates = <<>>
  /\ logs = <<>>
  /\ isResuming = FALSE
  /\ resumeInfo = None
  /\ reusedOutputNodes = {}
  /\ now = 0
  /\ lastEvent = None
  /\ everRunning = {}
  /\ added = <<>>

\* handleRun: startExecution({... status: "pending", nodeStates: [] })
StartExecution(id) ==
  /\ activeExecution' = Some(NewExecution(id))
  /\ isExecuting' = TRUE
  /\ nodeStates' = <<>>
  /\ logs' = <<>>
  /\ lastEvent' = None
  /\ everRunning' = {}
  /\ added' = <<>>
  /\ UNCHANGED <<isResuming, resumeInfo, reusedOutputNodes, now, validatorVars, editorVars,
                 hookVars, canvasVars>>

ClearExecution ==
  /\ activeExecution # None \/ nodeStates # <<>> \/ logs # <<>> \/ lastEvent # None
  /\ activeExecution' = None
  /\ isExecuting' = FALSE
  /\ nodeStates' = <<>>
  /\ logs' = <<>>
  /\ lastEvent' = None
  /\ everRunning' = {}
  /\ added' = <<>>
  /\ UNCHANGED <<isResuming, resumeInfo, reusedOutputNodes, now, validatorVars, editorVars,
                 hookVars, canvasVars>>

\* time passes between two callbacks
Tick ==
  /\ now < MaxTime
  /\ now' = now + 1
  /\ UNCHANGED <<storeVars, lastEvent, everRunning, added, validatorVars, editorVars,
                 hookVars, canvasVars>>

\* ws.onmessage: handleEvent(data)
Receive(e) ==
  /\ e.event \in LogEvents => Len(logs) < MaxLogs
  /\ handleEvent(e)
  /\ lastEvent' = Some([event |-> e.event, nodeId |-> e.nodeId])
  /\ everRunning' = everRunning \cup
       {n \in DOMAIN nodeStates' : nodeStates'[n].status = "running"}
  /\ added' = added \o handleEventLogs(e, <<>>, now)
  /\ UNCHANGED <<now, validatorVars, editorVars, hookVars, canvasVars>>

Init ==
  /\ workflow = [nodes |-> <<>>, edges |-> <<>>]
  /\ call = NoCall
  /\ InitClient

\* The execution and node status stream: every kind but the log-producing ones.
StatusEventPool == {e \in EventPool : e.event \notin LogEvents}

Next ==
  \/ \E id \in ExecutionIds : StartExecution(id)
  \/ ClearExecution
  \/ Tick
  \/ \E e \in StatusEventPool : Receive(e)

Spec == Init /\ [][Next]_vars

\* The node status stream of one execution.
NodeEventPool == {e \in EventPool : e.event \in NodeEvents}

NextNodes ==
  \/ \E id \in ExecutionIds : StartExecution(id)
  \/ Tick
  \/ \E e \in NodeEventPool : Receive(e)

SpecNodes == Init /\ [][NextNodes]_vars

\* Messages of an execution watched earlier, delivered late.
EarlierExecutionIds == {"x0"}

LateEventPool ==
  {[e EXCEPT !.executionId = x] :
     e \in {ev \in EventPool : ev.event \in ExecutionEvents \cup NodeEvents \cup {"LOG_EMITTED"}},
     x \in EarlierExecutionIds}

NextLate ==
  \/ \E id \in ExecutionIds : StartExecution(id)
  \/ Tick
  \/ \E e \in LateEventPool : Receive(e)

SpecLate == Init /\ [][NextLate]_vars

\* The log and resume stream next to the execution lifecycle events.
LogEventPool == {e \in EventPool : e.event \in LogEvents \cup ExecutionEvents}

NextLogs ==
  \/ \E id \in ExecutionIds : StartExecution(id)
  \/ ClearExecution
  \/ Tick
  \/ \E e \in LogEventPool : Receive(e)

SpecLogs == Init /\ [][NextLogs]_vars

\* The log buffer close to its limit. The buffer starts as the LOG_EMITTED
\* events of a running execution leave it at time 0, RingHeadroom entries
\* short of LogLimit.
LongRunLog == [timestamp |-> 0, nodeId |-> "n1", level |-> "info", message |-> ""]

LongRunLogs == [i \in 1..(LogLimit - RingHeadroom) |-> LongRunLog]

InitRing ==
  /\ workflow = [nodes |-> <<>>, edges |-> <<>>]
  /\ call = NoCall
  /\ InitEditor
  /\ InitHook
  /\ InitCanvas
  /\ activeExecution = Some(NewExecution("x1"))
  /\ isExecuting = TRUE
  /\ nodeStates = <<>>
  /\ logs = LongRunLogs
  /\ isResuming = FALSE
  /\ resumeInfo = None
  /\ reusedOutputNodes = {}
  /\ now = 0
  /\ lastEvent = Some([event |-> "LOG_EMITTED", nodeId |-> Some("n1")])
  /\ everRunning = {}
  /\ added = LongRunLogs

\* ws.onmessage while the buffer is within RingHeadroom of its limit
ReceiveNearLimit(e) ==
  /\ Len(logs) >= LogLimit - RingHeadroom
  /\ Len(added) < LogLimit + MaxOverflow
  /\ handleEvent(e)
  /\ lastEvent' = Some([event |-> e.event, nodeId |-> e.nodeId])
  /\ everRunning' = everRunning \cup
       {n \in DOMAIN nodeStates' : nodeStates'[n].status = "running"}
  /\ added' = added \o handleEventLogs(e, <<>>, now)
  /\ UNCHANGED <<now, validatorVars, editorVars, hookVars, canvasVars>>

ClearLogs ==
  /\ logs # <<>>
  /\ logs' = <<>>
  /\ added' = <<>>
  /\ UNCHANGED <<activeExecution, isExecuting, nodeStates, isResuming, resumeInfo,
                 reusedOutputNodes, now, lastEvent, everRunning, validatorVars, editorVars,
                 hookVars, canvasVars>>

RingEventPool == {e \in EventPool : e.event \in {"LOG_EMITTED", "RESUME_COMPLETE"}}

NextRing ==
  \/ \E id \in ExecutionIds : StartExecution(id)
  \/ ClearExecution
  \/ ClearLogs
  \/ Tick
  \/ \E e \in RingEventPool : Receive(e)
  \/ \E e \in RingEventPool : ReceiveNearLimit(e)

SpecRing == InitRing /\ [][NextRing]_vars

\* ------------------------------------------------------------------------
\* hooks/use-execution-websocket.ts (mounted by ExecutionLogsPanel)
\* ------------------------------------------------------------------------
\* the executionId prop: activeExecution?.id ?? null
PropExecutionId == IF activeExecution # None THEN Some(activeExecution[1].id) ELSE None

\* the connection fields of the execution store
Connection == [isConnected |-> isConnected, connectionError |-> connectionError]

setConnected(conn, connected) ==
  [isConnected |-> connected,
   connectionError |-> IF connected THEN None ELSE conn.connectionError]

setConnectionError(conn, error) == [connectionError |-> error, isConnected |-> FALSE]

\* ws.onopen: setConnected(true); setConnectionError(null)
onopenConnection(conn) == setConnectionError(setConnected(conn, TRUE), None)

\* sendMessage sends only if wsRef.current?.readyState === WebSocket.OPEN
CanSend(readyState) == wsRef = "current" /\ readyState = "open"

ClientMessage(action, id) == [action |-> action, executionId |-> id]

\* The effect re-runs because executionId changed: the cleanup of the mounted
\* effect (unsubscribe and close an OPEN socket, close a CONNECTING one), then
\* the new effect body (nothing without an executionId, else a new WebSocket).
RunEffect ==
  /\ effectExecutionId # PropExecutionId
  /\ (effectExecutionId # None /\ ws \in {"open", "connecting"}) => closingSockets < MaxClosing
  /\ closingSockets' = IF effectExecutionId # None /\ ws \in {"open", "connecting"}
                        THEN closingSockets + 1 ELSE closingSockets
  /\ lastSent' = IF effectExecutionId # None /\ CanSend(ws)
                  THEN Some(ClientMessage("unsubscribe", effectExecutionId[1]))
                  ELSE lastSent
  /\ ws' = IF PropExecutionId # None THEN "connecting" ELSE "none"
  /\ wsRef' = IF PropExecutionId # None THEN "current"
               ELSE IF wsRef = "current" THEN "stale" ELSE wsRef
  /\ subscribed' = FALSE
  /\ effectExecutionId' = PropExecutionId
  /\ UNCHANGED <<isConnected, connectionError, validatorVars, clientVars, editorVars,
                 canvasVars>>

\* ws.onopen
SocketOpen ==
  /\ ws = "connecting"
  /\ ws' = "open"
  /\ isConnected' = onopenConnection(Connection).isConnected
  /\ connectionError' = onopenConnection(Connection).connectionError
  /\ subscribed' = IF CanSend("open") THEN TRUE ELSE subscribed
  /\ lastSent' = IF CanSend("open")
                  THEN Some(ClientMessage("subscribe", effectExecutionId[1]))
                  ELSE lastSent
  /\ UNCHANGED <<wsRef, closingSockets, effectExecutionId, validatorVars, clientVars,
                 editorVars, canvasVars>>

\* ws.onerror
SocketError ==
  /\ ws \in {"connecting", "open"}
  /\ connectionError' =
       setConnectionError(Connection, Some("WebSocket connection error")).connectionError
  /\ isConnected' =
       setConnectionError(Connection, Some("WebSocket connection error")).isConnected
  /\ UNCHANGED <<ws, wsRef, closingSockets, effectExecutionId, subscribed,
                 lastSent, validatorVars, clientVars, editorVars, canvasVars>>

\* ws.onclose of the effect's socket: the server or the network closed it
SocketClose ==
  /\ ws \in {"connecting", "open"}
  /\ ws' = "closed"
  /\ isConnected' = setConnected(Connection, FALSE).isConnected
  /\ connectionError' = setConnected(Connection, FALSE).connectionError
  /\ wsRef' = "null"
  /\ UNCHANGED <<closingSockets, effectExecutionId, subscribed, lastSent,
                 validatorVars, clientVars, editorVars, canvasVars>>

\* ws.onclose of a socket that an earlier cleanup closed
StaleSocketClose ==
  /\ closingSockets > 0
  /\ closingSockets' = closingSockets - 1
  /\ isConnected' = setConnected(Connection, FALSE).isConnected
  /\ connectionError' = setConnected(Connection, FALSE).connectionError
  /\ wsRef' = "null"
  /\ UNCHANGED <<ws, effectExecutionId, subscribed, lastSent,
                 validatorVars, clientVars, editorVars, canvasVars>>

\* ws.onmessage of the effect's socket
SocketMessage(e) ==
  /\ ws = "open"
  /\ Receive(e)

SocketEventPool == {e \in EventPool : e.event \in ExecutionEvents}

NextSocket ==
  \/ \E id \in ExecutionIds : StartExecution(id)
  \/ ClearExecution
  \/ RunEffect
  \/ SocketOpen
  \/ SocketError
  \/ SocketClose
  \/ StaleSocketClose
  \/ \E e \in SocketEventPool : SocketMessage(e)

SpecSocket == Init /\ [][NextSocket]_vars

\* The panel watches one execution and then another: handleRun starts an
\* execution while an earlier one is still the active one.
WatchedIds == {"x1", "x2"}

NextSwitch ==
  \/ \E id \in WatchedIds : StartExecution(id)
  \/ RunEffect
  \/ SocketOpen
  \/ SocketError
  \/ SocketClose
  \/ StaleSocketClose
  \/ \E e \in SocketEventPool : SocketMessage(e)

SpecSwitch == Init /\ [][NextSwitch]_vars

\* React runs a pending effect and the browser delivers onopen and the
\* onclose of a socket that close() was called on; a failure of the
\* connection (SocketError, SocketClose) may or may not happen.
FairSpecSocket ==
  /\ SpecSocket
  /\ WF_vars(RunEffect)
  /\ WF_vars(SocketOpen)
  /\ WF_vars(StaleSocketClose)

\* ------------------------------------------------------------------------
\* apps/web/src/stores/workflow-store.ts
\* ------------------------------------------------------------------------
StoreNodePool == [id : {"a", "b"}, label : {"l1", "l2"}]

StoreEdgePool == {[id |-> "e1", source |-> "a", target |-> "b"],
                  [id |-> "e2", source |-> "b", target |-> "a"]}

StoreNodeSeqs == UNION {[1..k -> StoreNodePool] : k \in 0..MaxStoreNodes}

StoreEdgeSeqs == UNION {[1..k -> StoreEdgePool] : k \in 0..MaxStoreEdges}

\* what the server hands to setWorkflow
LoadedWorkflows ==
  [status : {"draft", "valid", "invalid"},
   nodes : {<<>>, <<[id |-> "a", label |-> "l1"]>>},
   edges : {<<>>}]

\* if (state.workflow) { state.workflow = {...}; state.isDirty = true; }
EditWorkflow(field, value) ==
  /\ storeWorkflow' = IF storeWorkflow # None
                       THEN Some([x \in DOMAIN storeWorkflow[1] |->
                                    IF x = field THEN value ELSE storeWorkflow[1][x]])
                       ELSE storeWorkflow
  /\ isDirty' = IF storeWorkflow # None THEN TRUE ELSE isDirty
  /\ UNCHANGED <<validationErrors, executionOrder, validatorVars, clientVars, hookVars,
                 validationVars, canvasVars>>

\* state.workflow.nodes, [] while no workflow is loaded
CurrentNodes == IF storeWorkflow # None THEN storeWorkflow[1].nodes ELSE <<>>

CurrentEdges == IF storeWorkflow # None THEN storeWorkflow[1].edges ELSE <<>>

SetWorkflow(loaded) ==
  /\ storeWorkflow' = Some(loaded)
  /\ isDirty' = FALSE
  /\ lastEdit' = "setWorkflow"
  /\ UNCHANGED <<validationErrors, executionOrder, validatorVars, clientVars, hookVars,
                 validationVars, canvasVars>>

ClearWorkflow ==
  /\ storeWorkflow' = None
  /\ isDirty' = FALSE
  /\ validationErrors' = <<>>
  /\ executionOrder' = None
  /\ lastEdit' = "clearWorkflow"
  /\ UNCHANGED <<validatorVars, clientVars, hookVars,
                 validationVars, canvasVars>>

SetNodes(nodes) ==
  /\ lastEdit' = "setNodes"
  /\ EditWorkflow("nodes", nodes)

SetEdges(edges) ==
  /\ lastEdit' = "setEdges"
  /\ EditWorkflow("edges", edges)

AddNode(node) ==
  /\ Len(CurrentNodes) < MaxStoreNodes
  /\ lastEdit' = "addNode"
  /\ EditWorkflow("nodes", Append(CurrentNodes, node))

UpdateNode(nodeId, updates) ==
  /\ lastEdit' = "updateNode"
  /\ EditWorkflow("nodes",
       [i \in DOMAIN CurrentNodes |->
          IF CurrentNodes[i].id = nodeId THEN Merge(CurrentNodes[i], updates)
          ELSE CurrentNodes[i]])

\* removes the node and the edges connected to it
RemoveNode(nodeId) ==
  /\ storeWorkflow' =
       IF storeWorkflow # None
       THEN Some([status |-> storeWorkflow[1].status,
                  nodes |-> SelectSeq(CurrentNodes, LAMBDA node : node.id # nodeId),
                  edges |-> SelectSeq(CurrentEdges,
                              LAMBDA edge : edge.source # nodeId /\ edge.target # nodeId)])
       ELSE storeWorkflow
  /\ isDirty' = IF storeWorkflow # None THEN TRUE ELSE isDirty
  /\ lastEdit' = "removeNode"
  /\ UNCHANGED <<validationErrors, executionOrder, validatorVars, clientVars, hookVars,
                 validationVars, canvasVars>>

AddEdge(edge) ==
  /\ Len(CurrentEdges) < MaxStoreEdges
  /\ lastEdit' = "addEdge"
  /\ EditWorkflow("edges", Append(CurrentEdges, edge))

RemoveEdge(edgeId) ==
  /\ lastEdit' = "removeEdge"
  /\ EditWorkflow("edges", SelectSeq(CurrentEdges, LAMBDA edge : edge.id # edgeId))

SetValidationResult(errors, order) ==
  /\ validationErrors' = errors
  /\ executionOrder' = order
  /\ storeWorkflow' = IF storeWorkflow # None
                       THEN Some([storeWorkflow[1] EXCEPT
                                    !.status = IF Len(errors) = 0 THEN "valid" ELSE "invalid"])
                       ELSE storeWorkflow
  /\ lastEdit' = "setValidationResult"
  /\ UNCHANGED <<isDirty, validatorVars, clientVars, hookVars,
                 validationVars, canvasVars>>

NextEditor ==
  \/ \E loaded \in LoadedWorkflows : SetWorkflow(loaded)
  \/ ClearWorkflow
  \/ \E nodes \in StoreNodeSeqs : SetNodes(nodes)
  \/ \E edges \in StoreEdgeSeqs : SetEdges(edges)
  \/ \E node \in StoreNodePool : AddNode(node)
  \/ \E nodeId \in {"a", "b"}, label \in {"l1", "l2"} : UpdateNode(nodeId, [label |-> label])
  \/ \E nodeId \in {"a", "b"} : RemoveNode(nodeId)
  \/ \E edge \in StoreEdgePool : AddEdge(edge)
  \/ \E edgeId \in {"e1", "e2"} : RemoveEdge(edgeId)
  \/ \E errors \in {<<>>, <<"CYCLE_DETECTED">>}, order \in {None, Some(<<"a">>)} :
       SetValidationResult(errors, order)

SpecEditor == Init /\ [][NextEditor]_vars

\* handleValidate up to its await: the request carries the nodes and edges
\* the store holds now
HandleValidate ==
  /\ storeWorkflow # None
  /\ pendingValidation = None
  /\ pendingValidation' = Some([nodes |-> CurrentNodes, edges |-> CurrentEdges])
  /\ UNCHANGED <<storeWorkflow, isDirty, validationErrors, executionOrder, lastEdit,
                 validatedSnapshot, validatorVars, clientVars, hookVars, canvasVars>>

\* handleValidate after its await: setValidationResult(result.errors,
\* result.executionOrder) on the workflow the store holds then
ValidateResponse(errors, order) ==
  /\ pendingValidation # None
  /\ validationErrors' = errors
  /\ executionOrder' = order
  /\ storeWorkflow' = IF storeWorkflow # None
                       THEN Some([storeWorkflow[1] EXCEPT
                                    !.status = IF Len(errors) = 0 THEN "valid" ELSE "invalid"])
                       ELSE storeWorkflow
  /\ lastEdit' = "setValidationResult"
  /\ validatedSnapshot' = IF Len(errors) = 0 THEN pendingValidation ELSE validatedSnapshot
  /\ pendingValidation' = None
  /\ UNCHANGED <<isDirty, validatorVars, clientVars, hookVars, canvasVars>>

\* handleValidate's catch: the request failed
ValidateFailed ==
  /\ pendingValidation # None
  /\ pendingValidation' = None
  /\ UNCHANGED <<storeWorkflow, isDirty, validationErrors, executionOrder, lastEdit,
                 validatedSnapshot, validatorVars, clientVars, hookVars, canvasVars>>

\* the workflow the editor page loads, and the results the server returns
DraftWorkflow == [status |-> "draft", nodes |-> <<[id |-> "a", label |-> "l1"]>>,
                  edges |-> <<>>]

ValidationResults == {[errors |-> <<>>, executionOrder |-> Some(<<"a">>)],
                      [errors |-> <<"CYCLE_DETECTED">>, executionOrder |-> None]}

NextValidation ==
  \/ SetWorkflow(DraftWorkflow)
  \/ \E node \in {n \in StoreNodePool : n.label = "l1"} : AddNode(node)
  \/ \E nodeId \in {"a", "b"} : RemoveNode(nodeId)
  \/ \E edge \in StoreEdgePool : AddEdge(edge)
  \/ HandleValidate
  \/ \E result \in ValidationResults :
       ValidateResponse(result.errors, result.executionOrder)
  \/ ValidateFailed

SpecValidation == Init /\ [][NextValidation]_vars

\* ------------------------------------------------------------------------
\* Validator actions
\* ------------------------------------------------------------------------
Validate(options) ==
  /\ call = NoCall
  /\ call' = [fn |-> "validateWorkflow", options |-> options,
              result |-> validateWorkflow(workflow, options)]
  /\ UNCHANGED <<workflow, clientVars, editorVars, hookVars, canvasVars>>

Sort ==
  /\ call = NoCall
  /\ call' = [fn |-> "topologicalSort", options |-> DefaultOptions,
              result |-> topologicalSort(workflow)]
  /\ UNCHANGED <<workflow, clientVars, editorVars, hookVars, canvasVars>>

Levels ==
  /\ call = NoCall
  /\ call' = [fn |-> "computeExecutionLevels", options |-> DefaultOptions,
              result |-> computeExecutionLevels(workflow)]
  /\ UNCHANGED <<workflow, clientVars, editorVars, hookVars, canvasVars>>

\* The same workflow with its edges inserted in another order, sorted again.
ReorderEdges(p) ==
  /\ call.fn = "topologicalSort"
  /\ workflow.edges = WithEdgeIds(workflow.edges)
  /\ Reordered(workflow.edges, p) # workflow.edges
  /\ workflow' = [workflow EXCEPT !.edges = Reordered(workflow.edges, p)]
  /\ call' = [fn |-> "topologicalSort", options |-> DefaultOptions,
              result |-> topologicalSort(workflow')]
  /\ UNCHANGED <<clientVars, editorVars, hookVars, canvasVars>>

\* M1 called on its own
CheckTypes(registry) ==
  /\ call = NoCall
  /\ call' = [fn |-> "validateTypeCompatibility",
              options |-> [hasRegistry |-> TRUE, agentRegistry |-> registry, failFast |-> FALSE],
              result |-> validateTypeCompatibility(workflow, registry)]
  /\ UNCHANGED <<workflow, clientVars, editorVars, hookVars, canvasVars>>

InitSemantic ==
  /\ workflow \in SemWorkflows
  /\ call = NoCall
  /\ InitClient

NextSemantic ==
  \/ \E options \in SemOptionsPool : Validate(options)
  \/ \E registry \in {SemRegistryFull, SemRegistryPartial} : CheckTypes(registry)

SpecSemantic == InitSemantic /\ [][NextSemantic]_vars

\* S3 called on its own
CheckDuplicates ==
  /\ call = NoCall
  /\ call' = [fn |-> "validateNoDuplicateEdges", options |-> DefaultOptions,
              result |-> validateNoDuplicateEdges(workflow)]
  /\ UNCHANGED <<workflow, clientVars, editorVars, hookVars, canvasVars>>

InitDuplicates ==
  /\ workflow \in DupWorkflows
  /\ call = NoCall
  /\ InitClient

NextDuplicates == CheckDuplicates

SpecDuplicates == InitDuplicates /\ [][NextDuplicates]_vars

InitValidate ==
  /\ workflow \in Workflows
  /\ call = NoCall
  /\ InitClient

NextValidate == \E options \in OptionsPool : Validate(options)

SpecValidate == InitValidate /\ [][NextValidate]_vars

\* ------------------------------------------------------------------------
\* components/canvas: validateConnection, wouldCreateCycle
\* ------------------------------------------------------------------------
ConnectionValidation(valid, reason) == [valid |-> valid, reason |-> reason]

\* Set.add on an insertion-ordered Set
SetAdd(members, x) == IF x \in Range(members) THEN members ELSE Append(members, x)

\* if (!adjacency.has(source)) adjacency.set(source, new Set());
\* adjacency.get(source).add(target)
adjacencyAdd(adjacency, source, target) ==
  MapSet(adjacency, source, SetAdd(AdjGet(adjacency, source), target))

RECURSIVE adjacencyOf(_, _, _)
adjacencyOf(edges, i, adjacency) ==
  IF i > Len(edges) THEN adjacency
  ELSE adjacencyOf(edges, i + 1, adjacencyAdd(adjacency, edges[i].source, edges[i].target))

\* T = [visited, inStack]
RECURSIVE hasCycle(_, _, _)
RECURSIVE hasCycleNeighbors(_, _, _, _)
hasCycle(adjacency, nodeId, T) ==
  IF nodeId \in T.inStack THEN [found |-> TRUE, T |-> T]
  ELSE IF nodeId \in T.visited THEN [found |-> FALSE, T |-> T]
  ELSE hasCycleNeighbors(adjacency, nodeId, AdjGet(adjacency, nodeId),
                         [visited |-> T.visited \cup {nodeId},
                          inStack |-> T.inStack \cup {nodeId}])

hasCycleNeighbors(adjacency, nodeId, neighbors, T) ==
  IF neighbors = <<>>
  THEN [found |-> FALSE, T |-> [T EXCEPT !.inStack = T.inStack \ {nodeId}]]
  ELSE LET r == hasCycle(adjacency, Head(neighbors), T)
       IN IF r.found THEN r
          ELSE hasCycleNeighbors(adjacency, nodeId, Tail(neighbors), r.T)

\* for (const nodeId of adjacency.keys()) if (hasCycle(nodeId)) return true
RECURSIVE checkAllNodes(_, _, _)
checkAllNodes(adjacency, i, T) ==
  IF i > Len(adjacency.keys) THEN FALSE
  ELSE LET r == hasCycle(adjacency, adjacency.keys[i], T)
       IN IF r.found THEN TRUE ELSE checkAllNodes(adjacency, i + 1, r.T)

wouldCreateCycle_withoutProposedEdge(edges, source, target) ==
  checkAllNodes(adjacencyOf(edges, 1, EmptyMap), 1, [visited |-> {}, inStack |-> {}])

wouldCreateCycle(edges, source, target) ==
  checkAllNodes(adjacencyAdd(adjacencyOf(edges, 1, EmptyMap), source, target), 1,
                [visited |-> {}, inStack |-> {}])

\* nodes.find((n) => n.id === id): the matching nodes, first one first
FindNode(nodes, id) == SelectSeq(nodes, LAMBDA n : n.id = id)

validateConnection(sourceId, targetId, sourceHandle, targetHandle, nodes, edges) ==
  IF sourceId = targetId
  THEN ConnectionValidation(FALSE, "Cannot connect a node to itself")
  ELSE IF \E i \in DOMAIN edges :
            /\ edges[i].source = sourceId /\ edges[i].target = targetId
            /\ edges[i].sourceHandle = sourceHandle /\ edges[i].targetHandle = targetHandle
  THEN ConnectionValidation(FALSE, "Connection already exists")
  ELSE IF \E i \in DOMAIN edges : edges[i].source = sourceId /\ edges[i].target = targetId
  THEN ConnectionValidation(FALSE, "A connection between these nodes already exists")
  ELSE IF \E i \in DOMAIN edges : edges[i].source = targetId /\ edges[i].target = sourceId
  THEN ConnectionValidation(FALSE, "Reverse connection would create a cycle")
  ELSE IF FindNode(nodes, sourceId) = <<>> \/ FindNode(nodes, targetId) = <<>>
  THEN ConnectionValidation(FALSE, "Source or target node not found")
  ELSE IF Head(FindNode(nodes, sourceId)).type = "output"
  THEN ConnectionValidation(FALSE, "Output nodes cannot have outgoing connections")
  ELSE IF Head(FindNode(nodes, targetId)).type = "input"
  THEN ConnectionValidation(FALSE, "Input nodes cannot have incoming connections")
  ELSE IF wouldCreateCycle(edges, sourceId, targetId)
  THEN ConnectionValidation(FALSE, "Connection would create a cycle")
  ELSE ConnectionValidation(TRUE, "")

\* ------------------------------------------------------------------------
\* stores/canvas-store.ts
\* ------------------------------------------------------------------------
\* the fields of the canvas store the model carries
Canvas == [nodes |-> canvasNodes, edges |-> canvasEdges,
           selectedNodeIds |-> selectedNodeIds, selectedEdgeIds |-> selectedEdgeIds]

Without(ids, id) == SelectSeq(ids, LAMBDA x : x # id)

removeNode(C, nodeId) ==
  [C EXCEPT !.nodes = SelectSeq(C.nodes, LAMBDA n : n.id # nodeId),
            !.edges = SelectSeq(C.edges, LAMBDA e : e.source # nodeId /\ e.target # nodeId),
            !.selectedNodeIds = Without(C.selectedNodeIds, nodeId)]

\* Prevent duplicate edges: same source, target and handles
addEdge(edges, edge) ==
  IF \E i \in DOMAIN edges :
       /\ edges[i].source = edge.source /\ edges[i].target = edge.target
       /\ edges[i].sourceHandle = edge.sourceHandle
       /\ edges[i].targetHandle = edge.targetHandle
  THEN edges ELSE Append(edges, edge)

\* one change of onNodesChange's loop (a position change moves the node only)
applyNodeChange(C, change) ==
  CASE change.type = "select" /\ change.selected ->
         [C EXCEPT !.selectedNodeIds = SetAdd(C.selectedNodeIds, change.id)]
    [] change.type = "select" /\ ~change.selected ->
         [C EXCEPT !.selectedNodeIds = Without(C.selectedNodeIds, change.id)]
    [] change.type = "remove" ->
         [C EXCEPT !.nodes = SelectSeq(C.nodes, LAMBDA n : n.id # change.id),
                   !.selectedNodeIds = Without(C.selectedNodeIds, change.id)]
    [] OTHER -> C

RECURSIVE onNodesChange(_, _, _)
onNodesChange(C, changes, i) ==
  IF i > Len(changes) THEN C
  ELSE onNodesChange(applyNodeChange(C, changes[i]), changes, i + 1)

\* `edge-${connection.source}-${connection.target}-${Date.now()}`
NewEdgeId(connection, t) ==
  "edge-" \o connection.source \o "-" \o connection.target \o "-" \o ToString(t)

\* onConnect's new edges: addEdge if source and target are truthy
onConnect(edges, connection, t) ==
  IF Truthy(connection.source) /\ Truthy(connection.target)
  THEN addEdge(edges, [id |-> NewEdgeId(connection, t),
                       source |-> connection.source, target |-> connection.target,
                       sourceHandle |-> connection.sourceHandle,
                       targetHandle |-> connection.targetHandle])
  ELSE edges

selectNode(C, nodeId, addToSelection) ==
  IF addToSelection
  THEN [C EXCEPT !.selectedNodeIds = SetAdd(C.selectedNodeIds, nodeId)]
  ELSE [C EXCEPT !.selectedNodeIds = <<nodeId>>, !.selectedEdgeIds = <<>>]

selectAll(C) ==
  [C EXCEPT !.selectedNodeIds = [i \in DOMAIN C.nodes |-> C.nodes[i].id],
            !.selectedEdgeIds = [i \in DOMAIN C.edges |-> C.edges[i].id]]

deleteSelected(C) ==
  [nodes |-> SelectSeq(C.nodes, LAMBDA n : n.id \notin Range(C.selectedNodeIds)),
   edges |-> SelectSeq(C.edges, LAMBDA e : /\ e.id \notin Range(C.selectedEdgeIds)
                                           /\ e.source \notin Range(C.selectedNodeIds)
                                           /\ e.target \notin Range(C.selectedNodeIds)),
   selectedNodeIds |-> <<>>,
   selectedEdgeIds |-> <<>>]

\* ------------------------------------------------------------------------
\* Canvas actions
\* ------------------------------------------------------------------------
CanvasBecomes(C) ==
  /\ canvasNodes' = C.nodes
  /\ canvasEdges' = C.edges
  /\ selectedNodeIds' = C.selectedNodeIds
  /\ selectedEdgeIds' = C.selectedEdgeIds

\* the nodes of the loaded workflow as toCanvasElements hands them to setNodes
CanvasNodePool ==
  <<[id |-> "i", type |-> "input"], [id |-> "p", type |-> "agent"],
    [id |-> "q", type |-> "agent"], [id |-> "r", type |-> "tool"],
    [id |-> "o", type |-> "output"]>>

SmallCanvasNodes ==
  <<[id |-> "i", type |-> "input"], [id |-> "p", type |-> "agent"],
    [id |-> "o", type |-> "output"]>>

CanvasNodeIds(nodes) == {nodes[i].id : i \in DOMAIN nodes}

\* what React Flow hands to onConnect: ends on the canvas, an end that is
\* not on the canvas, or an empty end; node i also offers a named handle
ConnectionPool(nodes) ==
  [source : CanvasNodeIds(nodes) \cup {"", "ghost"},
   target : CanvasNodeIds(nodes) \cup {"", "ghost"},
   sourceHandle : {None}, targetHandle : {None}]
  \cup [source : {"i"}, target : CanvasNodeIds(nodes),
        sourceHandle : {Some("out")}, targetHandle : {None}]

\* the effect that syncs the loaded workflow to the canvas: setNodes, setEdges
SyncCanvas(nodes) ==
  /\ canvasNodes' = nodes
  /\ canvasEdges' = <<>>
  /\ UNCHANGED <<selectedNodeIds, selectedEdgeIds, validatorVars, clientVars, editorVars,
                 hookVars>>

\* handleConnect: validateConnection on the canvas's nodes and edges, then
\* the store's onConnect
HandleConnect(connection) ==
  /\ Len(canvasEdges) < MaxCanvasEdges
  /\ IF /\ Truthy(connection.source) /\ Truthy(connection.target)
        /\ validateConnection(connection.source, connection.target,
                              connection.sourceHandle, connection.targetHandle,
                              canvasNodes, canvasEdges).valid
     THEN canvasEdges' = onConnect(canvasEdges, connection, now)
     ELSE canvasEdges' = canvasEdges
  /\ UNCHANGED <<canvasNodes, selectedNodeIds, selectedEdgeIds, validatorVars, clientVars,
                 editorVars, hookVars>>

CanvasRemoveNode(nodeId) ==
  /\ CanvasBecomes(removeNode(Canvas, nodeId))
  /\ UNCHANGED <<validatorVars, clientVars, editorVars, hookVars>>

OnNodesChange(changes) ==
  /\ CanvasBecomes(onNodesChange(Canvas, changes, 1))
  /\ UNCHANGED <<validatorVars, clientVars, editorVars, hookVars>>

SelectNode(nodeId, addToSelection) ==
  /\ CanvasBecomes(selectNode(Canvas, nodeId, addToSelection))
  /\ UNCHANGED <<validatorVars, clientVars, editorVars, hookVars>>

SelectAll ==
  /\ CanvasBecomes(selectAll(Canvas))
  /\ UNCHANGED <<validatorVars, clientVars, editorVars, hookVars>>

DeleteSelected ==
  /\ CanvasBecomes(deleteSelected(Canvas))
  /\ UNCHANGED <<validatorVars, clientVars, editorVars, hookVars>>

NextConnect ==
  \/ SyncCanvas(CanvasNodePool)
  \/ \E connection \in ConnectionPool(CanvasNodePool) : HandleConnect(connection)

SpecConnect == Init /\ [][NextConnect]_vars

\* the changes React Flow reports for one node
NodeChangePool ==
  {<<[type |-> "remove", id |-> id, selected |-> FALSE]>> : id \in CanvasNodeIds(SmallCanvasNodes)}
  \cup {<<[type |-> "select", id |-> id, selected |-> sel]>> :
          id \in CanvasNodeIds(SmallCanvasNodes), sel \in BOOLEAN}
  \cup {<<[type |-> "position", id |-> id, selected |-> FALSE]>> :
          id \in CanvasNodeIds(SmallCanvasNodes)}

NextCanvas ==
  \/ SyncCanvas(SmallCanvasNodes)
  \/ \E connection \in ConnectionPool(SmallCanvasNodes) : HandleConnect(connection)
  \/ \E nodeId \in CanvasNodeIds(SmallCanvasNodes) : CanvasRemoveNode(nodeId)
  \/ \E changes \in NodeChangePool : OnNodesChange(changes)
  \/ \E nodeId \in CanvasNodeIds(SmallCanvasNodes), addToSelection \in BOOLEAN :
       SelectNode(nodeId, addToSelection)
  \/ SelectAll
  \/ DeleteSelected

SpecCanvas == Init /\ [][NextCanvas]_vars

\* the graph index of a snapshot: in-degrees and both adjacency lists
Index ==
  /\ call = NoCall
  /\ call' = [fn |-> "graphIndex", options |-> DefaultOptions,
              result |-> [inDegrees |-> computeInDegrees(workflow),
                          adj |-> buildAdjacencyList(workflow),
                          rev |-> buildReverseAdjacencyList(workflow)]]
  /\ UNCHANGED <<workflow, clientVars, editorVars, hookVars, canvasVars>>

NextIndex == Index

SpecIndex == InitValidate /\ [][NextIndex]_vars

\* the two functions of topological.ts, each called once on a snapshot
NextOrder ==
  \/ Sort
  \/ Levels

SpecOrder == InitValidate /\ [][NextOrder]_vars

NextSort ==
  \/ Sort
  \/ \E p \in EdgeOrders(Len(workflow.edges)) : ReorderEdges(p)

SpecSort == InitValidate /\ [][NextSort]_vars

\* ------------------------------------------------------------------------
\* Graph vocabulary of the properties (independent of the validator's code)
\* ------------------------------------------------------------------------
EdgesResolve(w) ==
  \A i \in DOMAIN w.edges : HasNode(w, w.edges[i].source) /\ HasNode(w, w.edges[i].target)

HasEdge(w, u, v) == \E i \in DOMAIN w.edges : w.edges[i].source = u /\ w.edges[i].target = v

\* the vertex sets of the directed simple cycles of w (self-loops included)
Cycles(w) ==
  {C \in SUBSET Range(w.nodes) :
     /\ C # {}
     /\ \E s \in [1..Cardinality(C) -> C] :
          /\ IsInjective(s)
          /\ \A i \in 1..Cardinality(C) :
               HasEdge(w, s[i], s[IF i = Cardinality(C) THEN 1 ELSE i + 1])}

IsAcyclic(w) == Cycles(w) = {}

IndexOf(s, x) == CHOOSE i \in DOMAIN s : s[i] = x

\* order lists every node id of w exactly once
IsPermutationOfNodes(w, order) ==
  /\ Len(order) = Len(w.nodes)
  /\ IsInjective(order)
  /\ Range(order) = Range(w.nodes)

\* u comes before v in order for every edge u -> v
RespectsEdges(w, order) ==
  \A i \in DOMAIN w.edges :
    /\ w.edges[i].source \in Range(order)
    /\ w.edges[i].target \in Range(order)
    /\ IndexOf(order, w.edges[i].source) < IndexOf(order, w.edges[i].target)

Validated == call.fn = "validateWorkflow"

ReturnedValid == Validated /\ call.result.outcome = "returned" /\ call.result.value.valid

ReturnedInvalid == Validated /\ call.result.outcome = "returned" /\ ~call.result.value.valid

ErrorCodes == {call.result.value.errors[i].code : i \in DOMAIN call.result.value.errors}

\* ------------------------------------------------------------------------
\* Properties
\* ------------------------------------------------------------------------
\* C1: whenever validateWorkflow returns valid, the result carries an
\* executionOrder that lists every node id of the workflow exactly once and
\* places u before v for every edge u -> v.
C1_ValidCarriesExecutionOrder ==
  ReturnedValid =>
    /\ "executionOrder" \in DOMAIN call.result.value
    /\ IsPermutationOfNodes(workflow, call.result.value.executionOrder)
    /\ RespectsEdges(workflow, call.result.value.executionOrder)

\* C2: for a workflow whose edges all resolve, validated with the default
\* options, every directed cycle is reported: the result is invalid and for
\* each cycle C some CYCLE_DETECTED error names every node of C.
C2_EveryCycleReported ==
  (Validated /\ call.options = DefaultOptions /\ EdgesResolve(workflow)) =>
    \A C \in Cycles(workflow) :
      /\ ReturnedInvalid
      /\ \E i \in DOMAIN call.result.value.errors :
           /\ call.result.value.errors[i].code = "CYCLE_DETECTED"
           /\ C \subseteq Range(call.result.value.errors[i].nodeIds)

\* C3: validateWorkflow is total: on every snapshot and with every choice of
\* options it returns, without throwing and without running forever,
\* either valid or invalid with at least one error.
C3_ValidateWorkflowTotal ==
  Validated =>
    /\ call.result.outcome = "returned"
    /\ \/ call.result.value = validResult
       \/ /\ DOMAIN call.result.value = {"valid", "errors"}
          /\ call.result.value.valid = FALSE
          /\ Len(call.result.value.errors) > 0

\* C3 witness: a registry-backed, collect-all validation of a snapshot that
\* has a self-loop, an edge to a missing node and a duplicate edge returned.
C3_Witness ==
  /\ Validated
  /\ call.options.hasRegistry /\ ~call.options.failFast
  /\ call.result.outcome = "returned"
  /\ \E i \in DOMAIN workflow.edges : workflow.edges[i].source = workflow.edges[i].target
  /\ \E i \in DOMAIN workflow.edges : ~HasNode(workflow, workflow.edges[i].target)
  /\ \E i, j \in DOMAIN workflow.edges : i # j /\ EdgeKey(workflow.edges[i]) = EdgeKey(workflow.edges[j])

\* C4: topologicalSort is stable under edge insertion order: sorting an
\* acyclic workflow whose edges resolve, and sorting the same workflow with
\* the same edges inserted in another order, give the identical result.
C4_SortStableUnderEdgeOrder ==
  [][(/\ call.fn = "topologicalSort" /\ call'.fn = "topologicalSort"
      /\ workflow'.nodes = workflow.nodes
      /\ Range(workflow'.edges) = Range(workflow.edges)
      /\ EdgesResolve(workflow) /\ IsAcyclic(workflow))
     => call'.result = call.result]_vars

\* C10: when some edge references a missing node (S2 fails), the errors
\* returned consist of INVALID_EDGE_REFERENCE errors only.
C10_S2FailureStops ==
  (Validated /\ ~EdgesResolve(workflow)) =>
    /\ ReturnedInvalid
    /\ ErrorCodes = {"INVALID_EDGE_REFERENCE"}

\* ------------------------------------------------------------------------
\* Properties of the client reducer
\* ------------------------------------------------------------------------
TerminalNodeStatuses == {"completed", "failed", "skipped"}

TerminalExecutionStatuses == {"completed", "failed", "cancelled"}

\* the status the view shows for n (a node without an entry is pending)
StatusOf(ns, n) == IF n \in DOMAIN ns THEN ns[n].status ELSE "pending"

LastEventIs(kind, n) == lastEvent = Some([event |-> kind, nodeId |-> Some(n)])

C8_CacheHitCompletes ==
  \A n \in ExecNodeIds :
    LastEventIs("NODE_CACHE_HIT", n) => StatusOf(nodeStates, n) = "completed"

\* C9: once the active execution's status is completed, failed or cancelled,
\* no event applied afterwards changes it.
C9_TerminalExecutionImmutable ==
  [][(/\ activeExecution # None
      /\ activeExecution[1].status \in TerminalExecutionStatuses
      /\ lastEvent' # None)
     => /\ activeExecution' # None
        /\ activeExecution'[1].status = activeExecution[1].status]_vars

\* ------------------------------------------------------------------------
\* Properties of the orchestrator's rule order
\* ------------------------------------------------------------------------
\* C11: no result of validateWorkflow contains both a CYCLE_DETECTED error and
\* an ORPHAN_NODE error (a cycle reported by S1 keeps S5 from running).
C11_NoCycleWithOrphan ==
  ReturnedInvalid => ~({"CYCLE_DETECTED", "ORPHAN_NODE"} \subseteq ErrorCodes)

\* the rules in the orchestrator's order S2, S3, S4, S1, S5 and, with a
\* registry, M1, M2, each applied to w on its own
RulesInOrder(w, options) ==
  <<validateEdgeReferences(w), validateNoDuplicateEdges(w), validateHasEntryNode(w),
    validateNoCycles(w), validateNoOrphans(w)>>
  \o (IF options.hasRegistry
      THEN <<validateTypeCompatibility(w, options.agentRegistry),
             validateRequiredInputs(w, options.agentRegistry)>>
      ELSE <<>>)

Fails(r) == r.abort = "none" /\ Len(r.errors) > 0

\* position of the first failing rule, 0 when every rule passes
FirstFailing(rs) ==
  IF \E i \in DOMAIN rs : Fails(rs[i])
  THEN CHOOSE i \in DOMAIN rs : Fails(rs[i]) /\ \A j \in 1..(i - 1) : ~Fails(rs[j])
  ELSE 0

\* C12: with failFast = true validateWorkflow returns exactly the errors of
\* the first failing rule in the order S2, S3, S4, S1, S5, M1, M2 and nothing
\* of any later rule, so all errors of the result carry one rule's code.
C12_FailFastFirstRuleOnly ==
  (Validated /\ call.options.failFast) =>
    /\ call.result.outcome = "returned"
    /\ IF FirstFailing(RulesInOrder(workflow, call.options)) = 0
       THEN call.result.value = validResult
       ELSE /\ call.result.value =
                 invalidResult(RulesInOrder(workflow, call.options)
                                 [FirstFailing(RulesInOrder(workflow, call.options))].errors)
            /\ Cardinality(ErrorCodes) = 1

\* C12 witness: a failFast validation of a snapshot on which both the
\* duplicate-edge rule and the cycle rule fail has returned.
C12_Witness ==
  /\ Validated /\ call.options.failFast
  /\ EdgesResolve(workflow)
  /\ Fails(validateNoDuplicateEdges(workflow))
  /\ Fails(validateNoCycles(workflow))
  /\ ReturnedInvalid

\* an isolated node: no edge of w starts or ends at x
IsIsolated(w, x) ==
  \A i \in DOMAIN w.edges : w.edges[i].source # x /\ w.edges[i].target # x

\* C13 (scenario E): for a workflow of three nodes with the single edge
\* u -> v and an isolated third node x, validation reports an ORPHAN_NODE
\* error whose nodeIds is [x].
C13_IsolatedNodeIsOrphan ==
  (/\ Validated
   /\ Len(workflow.nodes) = 3 /\ Len(workflow.edges) = 1 /\ EdgesResolve(workflow)
   /\ workflow.edges[1].source # workflow.edges[1].target)
  => \A x \in Range(workflow.nodes) :
       IsIsolated(workflow, x) =>
         /\ ReturnedInvalid
         /\ \E i \in DOMAIN call.result.value.errors :
              /\ call.result.value.errors[i].code = "ORPHAN_NODE"
              /\ call.result.value.errors[i].nodeIds = <<x>>


\* ------------------------------------------------------------------------
\* Properties of the semantic rules
\* ------------------------------------------------------------------------
\* the node of w stored under n is an agent node whose definition is in R
IsAgentNodeIn(n, R) ==
  /\ NodeOf(n).type = "agent"
  /\ NodeOf(n).config.agentId # Undefined
  /\ NodeOf(n).config.agentId \in R

\* C14: when validation with an agent registry R returns valid, every agent
\* node n whose definition in R has a required input port p is the target of
\* some edge e with e.targetPort = p.
C14_RequiredInputsConnected ==
  (ReturnedValid /\ call.options.hasRegistry) =>
    \A n \in Range(workflow.nodes) :
      IsAgentNodeIn(n, call.options.agentRegistry) =>
        \A k \in DOMAIN AgentDefinition(NodeOf(n).config.agentId).inputSchema.ports :
          AgentDefinition(NodeOf(n).config.agentId).inputSchema.ports[k].required =>
            \E i \in DOMAIN workflow.edges :
              /\ workflow.edges[i].target = n
              /\ workflow.edges[i].targetPort =
                   AgentDefinition(NodeOf(n).config.agentId).inputSchema.ports[k].name

\* C14 witness: a registry-backed validation returned valid for a snapshot
\* that holds the agent node with the two required input ports.
C14_Witness ==
  /\ ReturnedValid /\ call.options.hasRegistry
  /\ "A3" \in call.options.agentRegistry
  /\ "d" \in Range(workflow.nodes)
  /\ Len(workflow.edges) = 2

\* C19: validateTypeCompatibility emits a TYPE_MISMATCH error only for edges
\* whose source node and target node are both of type agent: an edge that
\* touches an input, output or tool node is never reported.
C19_OnlyAgentEdgesTyped ==
  call.fn = "validateTypeCompatibility" =>
    \A i \in DOMAIN call.result.errors :
      \A j \in DOMAIN call.result.errors[i].edgeIds :
        \A e \in EdgesGet(workflow, call.result.errors[i].edgeIds[j]) :
          /\ NodeOf(e.source).type = "agent"
          /\ NodeOf(e.target).type = "agent"


\* ------------------------------------------------------------------------
\* Properties of the topological sort and of the execution levels
\* ------------------------------------------------------------------------
\* C15: for a workflow whose edges all resolve, topologicalSort fails with
\* cycle_detected exactly when the graph has a directed cycle, and otherwise
\* succeeds with an order that lists every node id exactly once and places u
\* before v for every edge u -> v.
C15_SortFailsIffCycle ==
  (call.fn = "topologicalSort" /\ EdgesResolve(workflow)) =>
    IF IsAcyclic(workflow)
    THEN /\ call.result.success
         /\ IsPermutationOfNodes(workflow, call.result.order)
         /\ RespectsEdges(workflow, call.result.order)
    ELSE call.result = [success |-> FALSE, reason |-> "cycle_detected"]

\* C15 witness: topologicalSort has failed on a resolved workflow of three
\* nodes in which a cycle of two nodes hangs off an entry node.
C15_Witness ==
  /\ call.fn = "topologicalSort" /\ EdgesResolve(workflow)
  /\ Len(workflow.nodes) = 3 /\ Len(workflow.edges) = 3
  /\ Len(findEntryNodes(workflow)) = 1
  /\ \E C \in Cycles(workflow) : Cardinality(C) = 2
  /\ ~call.result.success

Predecessors(w, v) == {u \in Range(w.nodes) : HasEdge(w, u, v)}

SetMax(S) == CHOOSE x \in S : \A y \in S : y <= x

\* the nodes reachable from the nodes of S by one edge or more
RECURSIVE ReachableFrom(_, _, _)
ReachableFrom(w, S, seen) ==
  LET next == {v \in Range(w.nodes) : \E u \in S : HasEdge(w, u, v)} \ seen
  IN IF next = {} THEN seen ELSE ReachableFrom(w, next, seen \cup next)

\* C20: for an acyclic workflow whose edges all resolve,
\* computeExecutionLevels gives every node a level: 0 to a node without
\* predecessors, 1 + the largest level of its predecessors to any other;
\* hence level(u) < level(v) for every edge u -> v and no two nodes of one
\* level are joined by a path.
C20_LevelsAreLongestPaths ==
  (call.fn = "computeExecutionLevels" /\ EdgesResolve(workflow) /\ IsAcyclic(workflow)) =>
    /\ Range(call.result.keys) = Range(workflow.nodes)
    /\ \A v \in Range(workflow.nodes) :
         call.result.val[v] =
           IF Predecessors(workflow, v) = {} THEN 0
           ELSE 1 + SetMax({call.result.val[u] : u \in Predecessors(workflow, v)})
    /\ \A i \in DOMAIN workflow.edges :
         call.result.val[workflow.edges[i].source] < call.result.val[workflow.edges[i].target]
    /\ \A u \in Range(workflow.nodes) :
         \A v \in ReachableFrom(workflow, {u}, {}) : call.result.val[u] # call.result.val[v]

\* C20 witness: the levels of a three-node workflow a -> b -> c with the
\* shortcut a -> c have been computed, and the last node sits on level 2.
C20_Witness ==
  /\ call.fn = "computeExecutionLevels" /\ EdgesResolve(workflow) /\ IsAcyclic(workflow)
  /\ Len(workflow.nodes) = 3 /\ Len(workflow.edges) = 3
  /\ \E u, v, x \in Range(workflow.nodes) :
       /\ HasEdge(workflow, u, v) /\ HasEdge(workflow, v, x) /\ HasEdge(workflow, u, x)
       /\ call.result.val[x] = 2


\* ------------------------------------------------------------------------
\* Properties of the duplicate-edge rule
\* ------------------------------------------------------------------------
EdgeTuple(edge) == <<edge.source, edge.sourcePort, edge.target, edge.targetPort>>

\* edge j repeats the tuple of an earlier edge
RepeatsEarlier(w, j) == \E i \in 1..(j - 1) : EdgeTuple(w.edges[i]) = EdgeTuple(w.edges[j])

FirstWithTuple(w, j) ==
  CHOOSE i \in 1..j : /\ EdgeTuple(w.edges[i]) = EdgeTuple(w.edges[j])
                      /\ \A k \in 1..(i - 1) : EdgeTuple(w.edges[k]) # EdgeTuple(w.edges[j])

\* C18: validateNoDuplicateEdges reports DUPLICATE_EDGE exactly for the edges
\* that repeat the (source, sourcePort, target, targetPort) tuple of an
\* earlier edge, never for edges whose tuples differ, and with one error per
\* collision whose edgeIds are the earlier and the later EdgeId in that order.
C18_DuplicateIffEqualTuples ==
  call.fn = "validateNoDuplicateEdges" =>
    /\ call.result.abort = "none"
    /\ \A k \in DOMAIN call.result.errors :
         /\ call.result.errors[k].code = "DUPLICATE_EDGE"
         /\ \E j \in DOMAIN workflow.edges :
              /\ RepeatsEarlier(workflow, j)
              /\ call.result.errors[k].edgeIds =
                   <<workflow.edges[FirstWithTuple(workflow, j)].id, workflow.edges[j].id>>
    /\ \A j \in DOMAIN workflow.edges :
         RepeatsEarlier(workflow, j) =>
           Cardinality({k \in DOMAIN call.result.errors :
                          call.result.errors[k].edgeIds[2] = workflow.edges[j].id}) = 1


\* ------------------------------------------------------------------------
\* Properties of the workflow store
\* ------------------------------------------------------------------------
GraphEdits == {"setNodes", "setEdges", "addNode", "updateNode", "removeNode", "addEdge",
               "removeEdge"}

\* C16: after any graph edit of the workflow store (setNodes, setEdges,
\* addNode, updateNode, removeNode, addEdge, removeEdge) on a workflow whose
\* status is valid or invalid, the workflow's status is draft.
C16_EditResetsStatusToDraft ==
  [][(/\ storeWorkflow # None
      /\ storeWorkflow[1].status \in {"valid", "invalid"}
      /\ lastEdit' \in GraphEdits)
     => /\ storeWorkflow' # None
        /\ storeWorkflow'[1].status = "draft"]_vars


\* ------------------------------------------------------------------------
\* Properties of the execution WebSocket hook
\* ------------------------------------------------------------------------
\* the effect's socket, on which subscribe had gone out, has closed while
\* the executionId it was opened for is still the active one
ClosedUnexpectedly ==
  /\ ws = "closed"
  /\ subscribed
  /\ effectExecutionId # None
  /\ effectExecutionId = PropExecutionId

\* C17: after the socket has closed unexpectedly while its executionId is
\* still active, the hook eventually has an open connection again on which
\* it has sent subscribe for that executionId (unless the execution stops
\* being the active one first).
C17_ReconnectsAndResubscribes ==
  ClosedUnexpectedly ~> ((ws = "open" /\ subscribed) \/ PropExecutionId = None)


\* ------------------------------------------------------------------------
\* Properties of the graph index
\* ------------------------------------------------------------------------
\* the ids of the edges of w that end at v (start at v) with both ends present
ResolvedIncoming(w, v) ==
  {w.edges[i].id : i \in {j \in DOMAIN w.edges :
                      w.edges[j].target = v /\ HasNode(w, w.edges[j].source)}}

ResolvedOutgoing(w, v) ==
  {w.edges[i].id : i \in {j \in DOMAIN w.edges :
                      w.edges[j].source = v /\ HasNode(w, w.edges[j].target)}}

\* C21: the graph index ignores edges with a missing endpoint: the keys of
\* computeInDegrees are exactly the workflow's NodeIds, the in-degree and
\* the incoming list of an existing node count no edge whose source is
\* missing, and its outgoing list holds no edge whose target is missing.
C21_IndexIgnoresDanglingEdges ==
  call.fn = "graphIndex" =>
    /\ Range(call.result.inDegrees.keys) = Range(workflow.nodes)
    /\ \A v \in Range(workflow.nodes) :
         /\ call.result.inDegrees.val[v] = Cardinality(ResolvedIncoming(workflow, v))
         /\ Range(call.result.rev.val[v]) = ResolvedIncoming(workflow, v)
         /\ Range(call.result.adj.val[v]) = ResolvedOutgoing(workflow, v)


\* ------------------------------------------------------------------------
\* Properties of the node stamps
\* ------------------------------------------------------------------------
HasStarted(ns, n) == n \in DOMAIN ns /\ ns[n].startedAt # None

Min(x, y) == IF x <= y THEN x ELSE y

LastOf(s, n) == SubSeq(s, Len(s) - n + 1, Len(s))

\* C23: the log buffer is a ring buffer of the most recent LogLimit = 1000
\* entries: it never holds more than 1000 logs, and it holds exactly the
\* last min(k, 1000) of the k entries added since the last reset, in the
\* order they were received.
C23_LogsAreLastThousand ==
  /\ Len(logs) <= LogLimit
  /\ logs = LastOf(added, Min(Len(added), LogLimit))

\* more than LogLimit entries were added since the last reset, and the
\* newest one is the note of a RESUME_COMPLETE
C23_Witness ==
  /\ Len(added) > LogLimit
  /\ Len(logs) = LogLimit
  /\ logs[LogLimit].message = "Resume completed"

\* ------------------------------------------------------------------------
\* Properties of the socket hook across a change of executionId
\* ------------------------------------------------------------------------
\* C24: when the executionId changes from X to Y, the onopen of the socket
\* opened for Y sends a subscribe message for Y on that socket, however the
\* onclose of the old socket interleaves with the creation and the opening
\* of the new one.
C24_SubscribeSentOnOpen ==
  [][SocketOpen =>
       /\ subscribed'
       /\ lastSent' = Some(ClientMessage("subscribe", effectExecutionId[1]))]_vars

\* C25: after the socket's onopen handler has run, the execution store
\* reports isConnected = true with connectionError = null.
C25_ConnectedAfterOpen ==
  [][SocketOpen => (isConnected' = TRUE /\ connectionError' = None)]_vars

\* ------------------------------------------------------------------------
\* Properties of the validation round trip
\* ------------------------------------------------------------------------
\* C26: when the workflow store's workflow has status valid, its nodes and
\* edges are exactly the snapshot for which the last validation returned
\* zero errors, also when the graph was edited between the request and its
\* response (stated for the state a validation response leaves).
C26_ValidMeansValidatedGraph ==
  (/\ storeWorkflow # None
   /\ storeWorkflow[1].status = "valid"
   /\ lastEdit = "setValidationResult")
  => validatedSnapshot = Some([nodes |-> CurrentNodes, edges |-> CurrentEdges])

\* ------------------------------------------------------------------------
\* Properties of events of another execution
\* ------------------------------------------------------------------------
\* C27: handleEvent applies an event only to the view of the execution it
\* belongs to: an event whose executionId differs from the id of the active
\* execution leaves the active execution's status, nodeStates and logs
\* unchanged.
C27_OtherExecutionEventsIgnored ==
  [][\A e \in LateEventPool :
       (/\ activeExecution # None
        /\ e.executionId # activeExecution[1].id
        /\ Receive(e))
       => /\ activeExecution'[1].status = activeExecution[1].status
          /\ nodeStates' = nodeStates
          /\ logs' = logs]_vars

\* ------------------------------------------------------------------------
\* Properties of agent resolution
\* ------------------------------------------------------------------------
\* C28: if full validation with an agent registry R returns valid, the
\* agentId of every agent node of the workflow resolves to a definition in
\* R: an agent node referencing an unknown agent always produces an error,
\* whether or not it has edges to other agent nodes.
C28_ValidMeansAgentsResolve ==
  (ReturnedValid /\ call.options.hasRegistry /\ ~call.options.failFast) =>
    \A n \in Range(workflow.nodes) :
      NodeOf(n).type = "agent" =>
        /\ NodeOf(n).config.agentId # Undefined
        /\ RegistryHas(call.options.agentRegistry, NodeOf(n).config.agentId)

\* ------------------------------------------------------------------------
\* Properties of the canvas
\* ------------------------------------------------------------------------
HasCanvasEdge(x, y) ==
  \E i \in DOMAIN canvasEdges : canvasEdges[i].source = x /\ canvasEdges[i].target = y

CanvasEnds == {canvasEdges[i].source : i \in DOMAIN canvasEdges}
              \cup {canvasEdges[i].target : i \in DOMAIN canvasEdges}

\* the ends that x reaches along one or more canvas edges
RECURSIVE CanvasReach(_, _)
CanvasReach(frontier, seen) ==
  IF frontier \subseteq seen THEN seen
  ELSE CanvasReach({y \in CanvasEnds : \E x \in frontier \cup seen : HasCanvasEdge(x, y)},
                   seen \cup frontier)

CanvasAcyclic ==
  \A x \in CanvasEnds :
    x \notin CanvasReach({y \in CanvasEnds : HasCanvasEdge(x, y)}, {})

CanvasTypeOf(id) == Head(FindNode(canvasNodes, id)).type

\* C29: connections accepted by validateConnection and added via onConnect
\* keep the canvas graph acyclic, with no self-loop, at most one edge per
\* ordered node pair, no edge in the reverse direction of an existing edge,
\* no edge leaving an output node and no edge entering an input node.
C29_ConnectionsKeepCanvasWellFormed ==
  /\ CanvasAcyclic
  /\ \A i \in DOMAIN canvasEdges :
       /\ canvasEdges[i].source # canvasEdges[i].target
       /\ \A j \in DOMAIN canvasEdges :
            (/\ canvasEdges[j].source = canvasEdges[i].source
             /\ canvasEdges[j].target = canvasEdges[i].target) => j = i
       /\ ~HasCanvasEdge(canvasEdges[i].target, canvasEdges[i].source)
       /\ CanvasTypeOf(canvasEdges[i].source) # "output"
       /\ CanvasTypeOf(canvasEdges[i].target) # "input"

\* three connections were accepted, two of them in a row between the nodes
\* that may be both source and target
C29_Witness ==
  /\ HasCanvasEdge("i", "p")
  /\ HasCanvasEdge("p", "q")
  /\ HasCanvasEdge("q", "r")

RemovedBy(changes) ==
  {changes[i].id : i \in {j \in DOMAIN changes : changes[j].type = "remove"}}

\* no edge of the new canvas ends at one of the removed nodes, and no
\* selection list holds one of their ids
NoTraceOf(removed) ==
  /\ \A i \in DOMAIN canvasEdges' :
       canvasEdges'[i].source \notin removed /\ canvasEdges'[i].target \notin removed
  /\ Range(selectedNodeIds') \cap removed = {}
  /\ Range(selectedEdgeIds') \cap removed = {}

\* C30: removing nodes from the canvas store never leaves dangling edges:
\* after removeNode, deleteSelected, or an onNodesChange change of type
\* remove, the store holds no edge whose source or target is a removed node,
\* and the selection lists hold no removed id.
C30_RemovalLeavesNoDanglingEdge ==
  [][/\ \A nodeId \in CanvasNodeIds(SmallCanvasNodes) :
          CanvasRemoveNode(nodeId) => NoTraceOf({nodeId} \cap CanvasNodeIds(canvasNodes))
     /\ DeleteSelected => NoTraceOf(Range(selectedNodeIds) \cap CanvasNodeIds(canvasNodes))
     /\ \A changes \in NodeChangePool :
          OnNodesChange(changes) =>
            NoTraceOf(RemovedBy(changes) \cap CanvasNodeIds(canvasNodes))]_vars

====
